---- MODULE Spec2Model ----
(***************************************************************************)
(* negotiagent-crawler: the breadth-first crawl frontier (Crawler.crawl),  *)
(* its URL normalisation and filtering, and the request construction of    *)
(* main().                                                                 *)
(*                                                                         *)
(* A URL string is a sequence of tokens.  The token "http://" is the       *)
(* scheme with its "//"; "/", "?" and "#" are the delimiters; every other  *)
(* token is an ordinary run of characters ("h", "a", ".pdf", ...).  String *)
(* operations of the source (startsWith, endsWith, slice, toLowerCase,     *)
(* RegExp.test on a literal) are computed on these sequences.              *)
(***************************************************************************)
EXTENDS Integers, Sequences, FiniteSets

\* ------------------------------------------------------------- bounds
\* Longest tail (the tokens after "http://" + first host token) of the URL
\* strings the pure URL functions are applied to.
MaxTail == 4
\* Most links the link loop of one page iterates over.
MaxLinks == 3
\* Largest maxPages a request carries.
MaxPagesArg == 3
\* Largest depth a request carries.
MaxDepthArg == 1
\* Longest manifest (includeUrls).
MaxManifest == 2

\* ------------------------------------------------------- JS values
\* An optional field (depth?, maxPages?, includeUrls?, ...): None when it
\* is undefined, Some(v) when it holds v.
None == << >>

Some(v) == <<v>>

IsSome(o) == o # None

Get(o) == o[1]

\* The empty string "".
Empty == << >>

\* ------------------------------------------------------ URL strings
Scheme == "http://"

Slash == "/"

Delims == {"/", "?", "#"}

\* toLowerCase on one token.
Lower(t) ==
  IF t = ".PDF" THEN ".pdf" ELSE t

LowerStr(s) ==
  [i \in 1..Len(s) |-> Lower(s[i])]

\* s.startsWith(p)
StartsWith(s, p) ==
  /\ Len(p) <= Len(s)
  /\ SubSeq(s, 1, Len(p)) = p

\* s.includes(p), which is also new RegExp(p).test(s) for a literal p.
Includes(s, p) ==
  \E i \in 0..(Len(s) - Len(p)) : SubSeq(s, i + 1, i + Len(p)) = p

\* Index of the first token of s at or after position i that is in set D,
\* or Len(s) + 1 when there is none.
RECURSIVE FirstIn(_, _, _)
FirstIn(s, i, D) ==
  IF i > Len(s) THEN Len(s) + 1
  ELSE IF s[i] \in D THEN i
  ELSE FirstIn(s, i + 1, D)

\* What new URL(url) yields when it throws (TypeError: Invalid URL).
InvalidURL == [ok |-> FALSE]

\* Index of the first token of s at or after position i that is not "/".
RECURSIVE SkipSlashes(_, _)
SkipSlashes(s, i) ==
  IF i <= Len(s) /\ s[i] = Slash THEN SkipSlashes(s, i + 1) ELSE i

\* new URL(url) for an absolute http URL (the scheme token is only ever the
\* first token of a string).  InvalidURL when the string has no scheme or no
\* host; otherwise the parsed record.  Slashes right after the scheme are
\* skipped, the host is the run of tokens up to the first delimiter
\* (lower-cased), the path runs up to the first "?" or "#" and is "/" when
\* empty, the query runs up to the first "#".
ParseURL(url) ==
  IF Len(url) < 2 \/ url[1] # Scheme
  THEN InvalidURL
  ELSE
    LET hostAt == SkipSlashes(url, 2)
        hostEnd == FirstIn(url, hostAt, Delims)
        pathEnd == FirstIn(url, hostEnd, {"?", "#"})
        hashAt == FirstIn(url, pathEnd, {"#"})
        rawPath == SubSeq(url, hostEnd, pathEnd - 1)
        hasQuery == pathEnd <= Len(url) /\ url[pathEnd] = "?"
        hasHash == hashAt <= Len(url)
    IN IF hostEnd = hostAt
       THEN InvalidURL
       ELSE [ ok |-> TRUE,
              host |-> LowerStr(SubSeq(url, hostAt, hostEnd - 1)),
              pathname |-> IF rawPath = Empty THEN <<Slash>> ELSE rawPath,
              hasQuery |-> hasQuery,
              query |-> IF hasQuery THEN SubSeq(url, pathEnd + 1, hashAt - 1)
                        ELSE Empty,
              hasHash |-> hasHash,
              hash |-> IF hasHash THEN SubSeq(url, hashAt + 1, Len(url))
                       ELSE Empty ]

\* URL.origin
Origin(parsed) ==
  <<Scheme>> \o parsed.host

\* URL.toString() / URL.href
Href(parsed) ==
  Origin(parsed) \o parsed.pathname
    \o (IF parsed.hasQuery THEN <<"?">> \o parsed.query ELSE Empty)
    \o (IF parsed.hasHash THEN <<"#">> \o parsed.hash ELSE Empty)

\* The pathname setter of an http URL: the path of such a URL is never
\* empty, so assigning "" leaves "/".
SetPathname(parsed, p) ==
  [parsed EXCEPT !.pathname = IF p = Empty THEN <<Slash>> ELSE p]

\* The hash setter with "": the fragment is removed.
ClearHash(parsed) ==
  [parsed EXCEPT !.hasHash = FALSE, !.hash = Empty]

\* s.slice(0, -1)
DropLast(s) ==
  SubSeq(s, 1, Len(s) - 1)

\* s.endsWith("/")
EndsWithSlash(s) ==
  Len(s) > 0 /\ s[Len(s)] = Slash

\* Crawler.normalizeUrl
normalizeUrl(url) ==
  LET parsed == ParseURL(url) IN
  IF ~parsed.ok THEN Empty
  ELSE
    LET noHash == ClearHash(parsed)
        stripped == IF EndsWithSlash(noHash.pathname)
                    THEN SetPathname(noHash, DropLast(noHash.pathname))
                    ELSE noHash
    IN Href(stripped)

\* The non-document extensions of isValidUrl.
Extensions ==
  {".jpg", ".jpeg", ".png", ".gif", ".pdf", ".css", ".js", ".ico", ".svg", ".mp4"}

\* s.endsWith(ext) for an extension token: extension tokens are whole
\* tokens, so the string ends with ext exactly when its last token is ext.
EndsWithExt(s, ext) ==
  Len(s) > 0 /\ s[Len(s)] = ext

\* Whether new RegExp(pattern) compiles: a pattern holding an unbalanced
\* "(" is a SyntaxError, every other pattern here is a literal.
RegExpCompiles(pattern) ==
  \A i \in 1..Len(pattern) : pattern[i] # "("

\* The loop over request.excludePatterns in isValidUrl, from index i on:
\* "matched" when a pattern matches (return false), "throws" when a pattern
\* does not compile, "pass" when the loop ends.
RECURSIVE ExcludeLoop(_, _, _)
ExcludeLoop(patterns, i, url) ==
  IF i > Len(patterns) THEN "pass"
  ELSE IF ~RegExpCompiles(patterns[i]) THEN "throws"
  ELSE IF Includes(url, patterns[i]) THEN "matched"
  ELSE ExcludeLoop(patterns, i + 1, url)

\* isValidUrl's try block with the extension test on the pathname as
\* written, without toLowerCase.
isValidUrlTryCaseSensitive(url, baseUrl, excludePatterns) ==
  LET parsed == ParseURL(url) IN
  IF ~parsed.ok THEN "throws"
  ELSE IF Origin(parsed) # baseUrl THEN "false"
  ELSE LET loop == IF IsSome(excludePatterns)
                   THEN ExcludeLoop(Get(excludePatterns), 1, url)
                   ELSE "pass"
       IN IF loop = "throws" THEN "throws"
          ELSE IF loop = "matched" THEN "false"
          ELSE IF \E ext \in Extensions : EndsWithExt(parsed.pathname, ext)
               THEN "false"
               ELSE "true"

\* The body of isValidUrl's try block: "true", "false", or "throws".
isValidUrlTry(url, baseUrl, excludePatterns) ==
  LET parsed == ParseURL(url) IN
  IF ~parsed.ok THEN "throws"
  ELSE IF Origin(parsed) # baseUrl THEN "false"
  ELSE LET loop == IF IsSome(excludePatterns)
                   THEN ExcludeLoop(Get(excludePatterns), 1, url)
                   ELSE "pass"
       IN IF loop = "throws" THEN "throws"
          ELSE IF loop = "matched" THEN "false"
          ELSE IF \E ext \in Extensions :
                    EndsWithExt(LowerStr(parsed.pathname), ext)
               THEN "false"
               ELSE "true"

\* Crawler.isValidUrl: [raised, value]; raised says an exception left the
\* function, value is what it returned otherwise.
isValidUrl(url, baseUrl, excludePatterns) ==
  IF url = Empty THEN [raised |-> FALSE, value |-> FALSE]
  ELSE LET r == isValidUrlTry(url, baseUrl, excludePatterns) IN
       IF r = "throws" THEN [raised |-> FALSE, value |-> FALSE]
       ELSE [raised |-> FALSE, value |-> (r = "true")]

\* ------------------------------------------------------------- keys
\* getUrlHash(url): the md5 of the string, hex.
getUrlHash(url) ==
  <<"md5(">> \o url \o <<")">>

\* getHierarchicalKey with the pathname left as parsed but for the root.
getHierarchicalKeyKeepingSlash(url, domain) ==
  LET parsed == ParseURL(url) IN
  IF ~parsed.ok THEN domain \o <<Slash>> \o getUrlHash(url)
  ELSE domain \o (IF parsed.pathname = <<Slash>> THEN <<Slash, "index">>
                  ELSE parsed.pathname)

\* A key made of everything that follows the origin, query string
\* included.
getHierarchicalKeyWithQuery(url, domain) ==
  LET parsed == ParseURL(url) IN
  IF ~parsed.ok THEN domain \o <<Slash>> \o getUrlHash(url)
  ELSE domain \o parsed.pathname \o parsed.query

\* getHierarchicalKey(url, domain)
getHierarchicalKey(url, domain) ==
  LET parsed == ParseURL(url) IN
  IF ~parsed.ok THEN domain \o <<Slash>> \o getUrlHash(url)
  ELSE LET pathname == IF parsed.pathname[1] # Slash
                       THEN <<Slash>> \o parsed.pathname
                       ELSE parsed.pathname
           stripped == IF EndsWithSlash(pathname) /\ Len(pathname) > 1
                       THEN DropLast(pathname)
                       ELSE pathname
       IN domain \o (IF stripped = <<Slash>> THEN <<Slash, "index">> ELSE stripped)

\* jsonKey: `${baseKey}.json`
JsonKey(baseKey) ==
  baseKey \o <<".json">>

\* --------------------------------------------------- the URLs of a run
\* "http://h/", "http://h" (a seed as typed, without its path), and pages
\* of the site h: "/a", "/a/" (normalises like "/a"), "/a/b" (under /a),
\* "/ab" (not under /a, though the string extends "http://h/a"), "/a.pdf".
Root == <<Scheme, "h", "/">>

RootBare == <<Scheme, "h">>

PageA == <<Scheme, "h", "/", "a">>

PageASlash == <<Scheme, "h", "/", "a", "/">>

PageAB == <<Scheme, "h", "/", "a", "/", "b">>

PageAx == <<Scheme, "h", "/", "a", "b">>

PagePdf == <<Scheme, "h", "/", "a", ".pdf">>

\* A page of another site, "http://g/a", and one of the site "hg", whose
\* origin string extends "http://h".
OtherA == <<Scheme, "g", "/", "a">>

OtherRoot == <<Scheme, "g", "/">>

LongHostA == <<Scheme, "h", "g", "/", "a">>

LongHostRoot == <<Scheme, "h", "g", "/">>

\* "http://g/b.pdf": of another origin, with a non-document extension, and
\* matching the exclude pattern "b".
OtherPdf == <<Scheme, "g", "/", "b", ".pdf">>

\* A string that is no URL.
NotAUrl == <<"a">>

\* The hrefs a rendered page may expose (a.href is a serialised absolute
\* URL; extractLinks keeps those starting with "http").
LinkUniverse ==
  {Root, PageA, PageASlash, PageAB, PageAx, PagePdf, OtherA, LongHostA}

RECURSIVE SeqsUpTo(_, _)
SeqsUpTo(S, n) ==
  IF n = 0 THEN {<< >>}
  ELSE LET shorter == SeqsUpTo(S, n - 1) IN
       shorter \cup {Append(q, x) : q \in {r \in shorter : Len(r) = n - 1}, x \in S}

\* --------------------------------------------------------- requests
DefaultMaxPages == 50

SeedUrls == {Root, RootBare, PageA}

DepthArgs == {None} \cup {Some(d) : d \in (0 - 1)..MaxDepthArg}

MaxPagesArgs == {None} \cup {Some(n) : n \in 0..MaxPagesArg}

\* excludePatterns: absent, or the one literal pattern "b".
PatternArgs == {None, Some(<< <<"b">> >>)}

ManifestUrls == {PageA, PageASlash, OtherPdf, NotAUrl}

ManifestLists == SeqsUpTo(ManifestUrls, MaxManifest)

\* The CrawlRequests a caller may construct a Crawler with (types.ts): a
\* plain request, or one carrying includeUrls.
PlainRequests ==
  [ url : SeedUrls, depth : DepthArgs, maxPages : MaxPagesArgs,
    excludePatterns : PatternArgs, includeUrls : {None, Some(<< >>)} ]

ManifestRequests ==
  [ url : {PageA}, depth : {None, Some(0 - 1), Some(0)}, maxPages : MaxPagesArgs,
    excludePatterns : {Some(<< <<"b">> >>)},
    includeUrls : {Some(l) : l \in ManifestLists \ {<< >>}} ]

NoCaller ==
  [ who |-> "none", urlArg |-> None, depthArg |-> None, maxPagesArg |-> None,
    manifestArg |-> None ]

DirectCaller ==
  [ who |-> "direct", urlArg |-> None, depthArg |-> None, maxPagesArg |-> None,
    manifestArg |-> None ]

NoEntry ==
  [url |-> Empty, depth |-> 0, dist |-> 0]

NoRequest ==
  [ url |-> Empty, depth |-> None, maxPages |-> None,
    excludePatterns |-> None, includeUrls |-> None ]

\* ------------------------------------------------------------ state
VARIABLES
  pc,             \* where the run is: "start", "idle", "seeding", "draining",
                  \* "done" (crawl returned), "rejected" (crawl threw)
  request,        \* Crawler.request
  baseUrl,        \* Crawler.baseUrl
  visitedUrls,    \* Crawler.visitedUrls
  results,        \* Crawler.results: the url of each PageResult
  queue,          \* crawl's queue: entries [url, depth] (+ dist, history)
  maxPages,       \* crawl's maxPages
  pagesProcessed, \* crawl's pagesProcessed
  browser,        \* "none", "open", "closed"
  current,        \* crawl's current: the entry whose links are being expanded
  link,           \* the loop variable of the link loop (Empty outside it)
  linkIndex,      \* how many links of the current page the loop has taken
  caller,         \* history: who built the request ("main", "direct"), and
                  \* the arguments main() was started with
  enqueued,       \* history: every queue entry the current invocation of
                  \* crawl() created, in order
  earlier,        \* how many invocations of crawl() on this Crawler came
                  \* before the current one
  attempts,       \* history: every entry the current invocation of crawl()
                  \* opened a page for: ok says
                  \* that it gave a PageResult, failed that a step of its
                  \* processing threw, final the URL the navigation of
                  \* the first page opened for a seed ended on, if it
                  \* did not throw
  fnArg,          \* the string a URL function is applied to on its own
  fnRet,          \* what the URL functions returned for fnArg
  disc,           \* DiscoveryService.discover(): where it is (pc), how
                  \* robots.txt answered, the fetchSitemap calls in progress
                  \* (stack), the requests getUrlsFromRobotsTxt made so
                  \* far with their answers (fetched, history) and what
                  \* it returned
                  \* (sitemapUrls, history), discover's urls, and the
                  \* SiteStructure returned
  extract,        \* one extractContent(page, url) on its own: where it is
                  \* (pc), request.includeResources, the img and anchor
                  \* URLs the page gives, allUrls, the index of the next
                  \* one, every axios.get made (fetches, history) and the
                  \* resources collected
  save            \* main()'s persistence loop: where it is (pc), the sink
                  \* chosen, the hostname of request.url (domain), the
                  \* PageResults it walks (pages), the index of the next
                  \* one, every put made so far (puts, history), and
                  \* what the sink holds under each key (store)

crawlVars ==
  << pc, request, baseUrl, visitedUrls, results, queue, maxPages,
     pagesProcessed, browser, current, link, linkIndex, caller, enqueued,
     attempts, earlier >>

fnVars == << fnArg, fnRet >>

vars == << crawlVars, fnVars, disc, save, extract >>

\* No URL function was applied on its own.
NoCall ==
  [ fn |-> "none", base |-> Empty, patterns |-> None, once |-> Empty,
    twice |-> Empty, valid |-> [raised |-> FALSE, value |-> FALSE],
    domain |-> Empty, key |-> Empty ]

\* includeUrls && includeUrls.length > 0
ManifestMode(req) ==
  IsSome(req.includeUrls) /\ Len(Get(req.includeUrls)) > 0

\* !this.request.includeUrls: an array, even an empty one, is truthy.
NoIncludeUrls(req) ==
  ~IsSome(req.includeUrls)

InitCrawl ==
  /\ pc = "start"
  /\ request = NoRequest
  /\ baseUrl = Empty
  /\ visitedUrls = {}
  /\ results = << >>
  /\ queue = << >>
  /\ maxPages = 0
  /\ pagesProcessed = 0
  /\ browser = "none"
  /\ current = NoEntry
  /\ link = Empty
  /\ linkIndex = 0
  /\ caller = NoCaller
  /\ enqueued = << >>
  /\ attempts = << >>
  /\ earlier = 0

\* extractContent is not applied on its own.
NoExtract ==
  [ pc |-> "none", includeResources |-> FALSE, imageUrls |-> << >>,
    pdfUrls |-> << >>, allUrls |-> << >>, next |-> 1, fetches |-> << >>,
    resources |-> << >> ]

\* main() has not reached its persistence loop.
NoSave ==
  [ pc |-> "none", sink |-> "none", domain |-> Empty, pages |-> << >>,
    next |-> 1, puts |-> << >>, store |-> << >> ]

\* No SiteStructure yet.
NoStructure ==
  [ totalUrls |-> 0, urls |-> << >>, sections |-> [s \in {} |-> 0] ]

\* discover() was not called.
NoDiscovery ==
  [ pc |-> "none", robots |-> "none", stack |-> << >>, fetched |-> << >>,
    sitemapUrls |-> << >>, urls |-> << >>, structure |-> NoStructure ]

Init ==
  /\ InitCrawl
  /\ fnArg = Empty
  /\ fnRet = NoCall
  /\ disc = NoDiscovery
  /\ save = NoSave
  /\ extract = NoExtract

\* new Crawler(request): the constructor throws when request.url is no URL.
NewCrawler(req, who) ==
  /\ pc = "start"
  /\ request' = req
  /\ caller' = who
  /\ LET parsed == ParseURL(req.url) IN
     IF parsed.ok
     THEN pc' = "idle" /\ baseUrl' = Origin(parsed)
     ELSE pc' = "rejected" /\ baseUrl' = baseUrl
  /\ UNCHANGED << fnVars, extract, save, earlier, visitedUrls, results, queue, maxPages, pagesProcessed,
                  browser, current, link, linkIndex, enqueued, attempts >>

\* A caller other than main constructs the Crawler.
DirectCrawl ==
  /\ pc = "start"
  /\ \E req \in PlainRequests \cup ManifestRequests : NewCrawler(req, DirectCaller)
  /\ UNCHANGED disc

\* ------------------------------------------------------------- main
\* The defaults of main() outside discovery mode.
MainDefaultDepth == 2

MainDefaultMaxPages == 50

\* What --manifest=<file> may name: a missing file, a file that is not
\* JSON, JSON without a urls array, JSON with urls.
ManifestFiles ==
  {[exists |-> FALSE, parses |-> FALSE, urls |-> None],
   [exists |-> TRUE, parses |-> FALSE, urls |-> None],
   [exists |-> TRUE, parses |-> TRUE, urls |-> None]}
  \cup {[exists |-> TRUE, parses |-> TRUE, urls |-> Some(l)] : l \in ManifestLists}

\* The request of a main() that leaves maxPages as given when it loads a
\* manifest.
MainRequestKeepsMaxPages(urlArg, depthArg, maxPagesArg, manifestArg) ==
  LET url == IF IsSome(urlArg) THEN Get(urlArg) ELSE Empty
      plain == [ url |-> url,
                 depth |-> IF IsSome(depthArg) THEN depthArg
                           ELSE Some(MainDefaultDepth),
                 maxPages |-> IF IsSome(maxPagesArg) THEN maxPagesArg
                              ELSE Some(MainDefaultMaxPages),
                 excludePatterns |-> None,
                 includeUrls |-> None ]
  IN IF IsSome(manifestArg) /\ IsSome(Get(manifestArg).urls)
     THEN LET urls == Get(Get(manifestArg).urls) IN
          [ plain EXCEPT
              !.includeUrls = Some(urls),
              !.url = IF url = Empty /\ Len(urls) > 0 THEN urls[1] ELSE url ]
     ELSE plain

\* The request main() builds from its arguments once the manifest, if any,
\* was read: url, depth and maxPages from the arguments or the defaults;
\* with a manifest that holds urls, includeUrls is the list, maxPages its
\* length, and url falls back to the first entry.
MainRequest(urlArg, depthArg, maxPagesArg, manifestArg) ==
  LET url == IF IsSome(urlArg) THEN Get(urlArg) ELSE Empty
      plain == [ url |-> url,
                 depth |-> IF IsSome(depthArg) THEN depthArg
                           ELSE Some(MainDefaultDepth),
                 maxPages |-> IF IsSome(maxPagesArg) THEN maxPagesArg
                              ELSE Some(MainDefaultMaxPages),
                 excludePatterns |-> None,
                 includeUrls |-> None ]
  IN IF IsSome(manifestArg) /\ IsSome(Get(manifestArg).urls)
     THEN LET urls == Get(Get(manifestArg).urls) IN
          [ plain EXCEPT
              !.includeUrls = Some(urls),
              !.maxPages = Some(Len(urls)),
              !.url = IF url = Empty /\ Len(urls) > 0 THEN urls[1] ELSE url ]
     ELSE plain

\* A main() that ends early only when it is left without a url.
MainFatalOnlyWithoutUrl(urlArg, manifestArg) ==
  MainRequest(urlArg, None, None, manifestArg).url = Empty

\* Whether main() ends before constructing a Crawler: no --url and no
\* --manifest, a manifest file that is missing or is not JSON, or no url
\* after the manifest was loaded.
MainFatal(urlArg, manifestArg) ==
  \/ ~IsSome(urlArg) /\ ~IsSome(manifestArg)
  \/ IsSome(manifestArg) /\ ~Get(manifestArg).exists
  \/ IsSome(manifestArg) /\ ~Get(manifestArg).parses
  \/ MainRequest(urlArg, None, None, manifestArg).url = Empty

MainCaller(urlArg, depthArg, maxPagesArg, manifestArg) ==
  [ who |-> "main", urlArg |-> urlArg, depthArg |-> depthArg,
    maxPagesArg |-> maxPagesArg, manifestArg |-> manifestArg ]

\* main() in crawl / ingest mode, up to new Crawler(request).
MainIngest ==
  /\ pc = "start"
  /\ \E urlArg \in {None, Some(Root), Some(PageA)},
        depthArg \in {None, Some(1)},
        maxPagesArg \in {None, Some(1)},
        manifestArg \in {None} \cup {Some(f) : f \in ManifestFiles} :
       IF MainFatal(urlArg, manifestArg)
       THEN /\ pc' = "exit"
            /\ caller' = MainCaller(urlArg, depthArg, maxPagesArg, manifestArg)
            /\ UNCHANGED << fnVars, extract, save, earlier, request, baseUrl, visitedUrls, results, queue, maxPages,
                            pagesProcessed, browser, current, link, linkIndex,
                            enqueued, attempts >>
       ELSE NewCrawler(MainRequest(urlArg, depthArg, maxPagesArg, manifestArg),
                       MainCaller(urlArg, depthArg, maxPagesArg, manifestArg))
  /\ UNCHANGED disc

\* ------------------------------------------------------------ crawl
\* chromium.launch() and browser.newContext(): either may throw, which
\* rejects crawl() before its try block.
Launch ==
  /\ pc = "idle"
  /\ \E outcome \in {"ok", "launchThrows", "newContextThrows"} :
       /\ browser' = IF outcome = "launchThrows" THEN "none" ELSE "open"
       /\ pc' = IF outcome = "ok" THEN "seeding" ELSE "rejected"
  /\ UNCHANGED << fnVars, extract, disc, save, earlier, request, baseUrl, visitedUrls, results, queue, maxPages,
                  pagesProcessed, current, link, linkIndex, caller, enqueued,
                  attempts >>

\* The queue entries pushed for a manifest, each at depth 0.
ManifestEntries(urls) ==
  [i \in 1..Len(urls) |-> [url |-> urls[i], depth |-> 0, dist |-> 0]]

\* request.maxPages ?? 50
PageLimit(req) ==
  IF IsSome(req.maxPages) THEN Get(req.maxPages) ELSE DefaultMaxPages

\* Seeding: the queue and the visited set are filled from includeUrls or
\* from request.url; maxPages and pagesProcessed are set.
Seed ==
  /\ pc = "seeding"
  /\ LET entries == IF ManifestMode(request)
                    THEN ManifestEntries(Get(request.includeUrls))
                    ELSE << [url |-> request.url, depth |-> 0, dist |-> 0] >>
     IN /\ queue' = entries
        /\ enqueued' = entries
        /\ visitedUrls' = visitedUrls
             \cup {normalizeUrl(entries[i].url) : i \in 1..Len(entries)}
  /\ maxPages' = PageLimit(request)
  /\ pagesProcessed' = 0
  /\ pc' = "draining"
  /\ UNCHANGED << fnVars, extract, disc, save, earlier, request, baseUrl, results, browser, current, link, linkIndex,
                  caller, attempts >>

\* A link pushed at the depth of the page it was found on.
SameDepth(d) == d

\* The depth given to a link found on a page dequeued at depth d.
ChildDepth(d) == d + 1

\* The sub-page test of the link loop: link.startsWith(this.request.url).
UnderSeed(l, req) ==
  StartsWith(l, req.url)

\* The link test with isValidUrl taking every origin for the base origin.
EnqueuesAnyOrigin(l, base, visited, req) ==
  /\ isValidUrl(l, Origin(ParseURL(l)), req.excludePatterns).value
  /\ normalizeUrl(l) \notin visited
  /\ StartsWith(l, req.url)

\* Whether the link loop enqueues link l: it passes isValidUrl against the
\* current base origin, its normalised form is not visited yet, and it
\* starts with the seed URL.
Enqueues(l, base, visited, req) ==
  /\ isValidUrl(l, base, req.excludePatterns).value
  /\ normalizeUrl(l) \notin visited
  /\ UnderSeed(l, req)

\* queue.pop(): the last entry, and the queue left.
Pop(q) ==
  [entry |-> q[Len(q)], rest |-> SubSeq(q, 1, Len(q) - 1)]

\* queue.shift(): the front entry, and the queue left.
Shift(q) ==
  [entry |-> Head(q), rest |-> Tail(q)]

\* A loop condition that admits one page more.
LoopConditionLate ==
  queue # << >> /\ pagesProcessed <= maxPages

\* The loop condition of crawl().
LoopCondition ==
  queue # << >> /\ pagesProcessed < maxPages

\* The depth check at the head of the loop body.
TooDeep(entry) ==
  IsSome(request.depth) /\ entry.depth > Get(request.depth)

\* The link expansion test without its includeUrls part.
ExpandsLinksOfManifest(entry) ==
  ~IsSome(request.depth) \/ entry.depth < Get(request.depth)

\* The test that the links of a processed page are expanded: no
\* includeUrls, and the depth limit not reached.
ExpandsLinks(entry) ==
  /\ NoIncludeUrls(request)
  /\ (~IsSome(request.depth) \/ entry.depth < Get(request.depth))

\* One iteration that ends at `continue`: the entry is dropped.
SkipTooDeep ==
  /\ pc = "draining"
  /\ LoopCondition
  /\ TooDeep(Shift(queue).entry)
  /\ queue' = Shift(queue).rest
  /\ UNCHANGED << fnVars, extract, disc, save, earlier, pc, request, baseUrl, visitedUrls, results, maxPages,
                  pagesProcessed, browser, current, link, linkIndex, caller,
                  enqueued, attempts >>

\* What response.url() may be for a navigation to url: the URL itself, or
\* the root of another site after a redirect.
FinalUrls(url) ==
  {url, OtherRoot, LongHostRoot}

\* The ways one page can go: context.newPage() throws; page.goto throws;
\* extractContent throws; the extractLinks of the link expansion throws;
\* nothing throws.  A string that is no URL cannot be navigated to.
PageOutcomes(entry) ==
  IF ~ParseURL(entry.url).ok
  THEN {"newPageThrows", "gotoThrows"}
  ELSE {"newPageThrows", "gotoThrows", "extractThrows", "ok"}
       \cup (IF ExpandsLinks(entry) THEN {"linksThrows"} ELSE {})

\* One iteration of the loop of crawl() past the depth check, up to the
\* link loop: the entry is dequeued, a page is opened and navigated; the
\* navigation of the first page opened for a seed may end on another site; on
\* the first processed page of a request without includeUrls a response of
\* another origin rebases baseUrl; the PageResult is pushed and counted.
\* An exception of goto, extractContent or extractLinks is caught and the
\* page is closed; one of newPage or page.close leaves the loop, closes the
\* browser and rejects crawl().  When links are to be expanded the
\* iteration goes on in the link loop (NextLink, EndLinks).
ProcessPage ==
  /\ pc = "draining"
  /\ LoopCondition
  /\ ~TooDeep(Shift(queue).entry)
  /\ LET entry == Shift(queue).entry
         first == attempts = << >> /\ ~ManifestMode(request)
         mayRebase == pagesProcessed = 0 /\ NoIncludeUrls(request)
     IN \E outcome \in PageOutcomes(entry) :
        \E hasResponse \in (IF first /\ outcome \in {"extractThrows", "linksThrows", "ok"}
                            THEN BOOLEAN ELSE {TRUE}) :
        \E finalUrl \in (IF first /\ hasResponse
                            /\ outcome \in {"extractThrows", "linksThrows", "ok"}
                         THEN FinalUrls(entry.url) ELSE {entry.url}),
           closeThrows \in (IF outcome = "newPageThrows"
                               \/ (outcome = "ok" /\ ExpandsLinks(entry))
                            THEN {FALSE} ELSE BOOLEAN) :
          LET opened == outcome # "newPageThrows"
              responded == outcome \in {"extractThrows", "linksThrows", "ok"}
              produced == outcome \in {"linksThrows", "ok"}
              expands == outcome = "ok" /\ ExpandsLinks(entry)
              thrown == ~opened \/ closeThrows
          IN /\ baseUrl' = IF responded /\ mayRebase /\ hasResponse
                              /\ Origin(ParseURL(finalUrl)) # baseUrl
                           THEN Origin(ParseURL(finalUrl))
                           ELSE baseUrl
             /\ results' = IF produced THEN Append(results, entry.url) ELSE results
             /\ pagesProcessed' = IF produced THEN pagesProcessed + 1
                                  ELSE pagesProcessed
             /\ queue' = Shift(queue).rest
             /\ attempts' = IF opened
                            THEN Append(attempts,
                                   [ url |-> entry.url, depth |-> entry.depth,
                                     dist |-> entry.dist, ok |-> produced,
                                     failed |-> outcome # "ok",
                                     final |-> IF first /\ responded
                                               THEN Some(finalUrl) ELSE None ])
                            ELSE attempts
             /\ current' = IF expands THEN entry ELSE NoEntry
             /\ pc' = IF thrown THEN "rejected"
                      ELSE IF expands THEN "expanding" ELSE "draining"
             /\ browser' = IF thrown THEN "closed" ELSE browser
  /\ UNCHANGED << fnVars, extract, disc, save, earlier, request, visitedUrls, maxPages, link, linkIndex, caller, enqueued >>

\* One iteration of the link loop, on the next link the page exposes: a
\* link that passes is marked visited and pushed at the child depth.
NextLink ==
  /\ pc = "expanding"
  /\ linkIndex < MaxLinks
  /\ \E l \in LinkUniverse :
       LET entry == [ url |-> l, depth |-> ChildDepth(current.depth),
                      dist |-> current.dist + 1 ]
       IN /\ link' = l
          /\ IF Enqueues(l, baseUrl, visitedUrls, request)
             THEN /\ visitedUrls' = visitedUrls \cup {normalizeUrl(l)}
                  /\ queue' = Append(queue, entry)
                  /\ enqueued' = Append(enqueued, entry)
             ELSE UNCHANGED << visitedUrls, queue, enqueued >>
  /\ linkIndex' = linkIndex + 1
  /\ UNCHANGED << fnVars, extract, disc, save, earlier, pc, request, baseUrl, results, maxPages, pagesProcessed,
                  browser, current, caller, attempts >>

\* The link loop is over: the page is closed (finally), which may throw.
EndLinks ==
  /\ pc = "expanding"
  /\ \E closeThrows \in BOOLEAN :
       /\ pc' = IF closeThrows THEN "rejected" ELSE "draining"
       /\ browser' = IF closeThrows THEN "closed" ELSE browser
  /\ current' = NoEntry
  /\ link' = Empty
  /\ linkIndex' = 0
  /\ UNCHANGED << fnVars, extract, disc, save, earlier, request, baseUrl, visitedUrls, results, queue, maxPages,
                  pagesProcessed, caller, enqueued, attempts >>

\* The loop condition is false: the browser is closed and crawl() returns
\* this.results.
Return ==
  /\ pc = "draining"
  /\ ~LoopCondition
  /\ browser' = "closed"
  /\ pc' = "done"
  /\ UNCHANGED << fnVars, extract, disc, save, earlier, request, baseUrl, visitedUrls, results, queue, maxPages,
                  pagesProcessed, current, link, linkIndex, caller, enqueued,
                  attempts >>

\* How many times a caller invokes crawl() again on the same Crawler.
MaxReuse == 1

\* crawl() is invoked again on a Crawler whose earlier invocation returned
\* or threw: queue, maxPages and pagesProcessed are locals of the new
\* invocation, while visitedUrls, results and baseUrl are fields of the
\* object and stay as the earlier invocation left them.
CrawlAgain ==
  /\ pc \in {"done", "rejected"}
  /\ baseUrl # Empty
  /\ earlier < MaxReuse
  /\ earlier' = earlier + 1
  /\ pc' = "idle"
  /\ queue' = << >>
  /\ maxPages' = 0
  /\ pagesProcessed' = 0
  /\ current' = NoEntry
  /\ link' = Empty
  /\ linkIndex' = 0
  /\ enqueued' = << >>
  /\ attempts' = << >>
  /\ UNCHANGED << fnVars, extract, disc, save, request, baseUrl, visitedUrls, results,
                  browser, caller >>

\* ------------------------------------------------------ persistence
\* The most resources a PageResult carries.
MaxResources == 2

\* PageResources (types.ts): a pdf, an image, and a resource of another
\* type whose URL has no extension; the buffer is left out.
ResourceOther ==
  [ url |-> PageAx, type |-> "other", extension |-> Empty ]

ResourcePdf ==
  [ url |-> PagePdf, type |-> "pdf", extension |-> <<"pdf">> ]

ResourcePng ==
  [ url |-> <<Scheme, "h", "/", "b">>, type |-> "image", extension |-> <<"png">> ]

\* PageResult.resources: optional in types.ts; extractContent always sets
\* a list, empty without includeResources.
ResourceLists ==
  {None} \cup {Some(l) : l \in SeqsUpTo({ResourcePdf, ResourcePng, ResourceOther}, MaxResources)}

\* A PageResult: its url and its resources.
PageResult(url, resources) ==
  [ url |-> url, resources |-> resources ]

\* Where main() persists: --output-dir, else --bucket, else nowhere.
Sinks == {"outputDir", "bucket", "none"}

\* resourceKey: `${baseKey}_resources/${getUrlHash(r.url)}.${r.extension}`
ResourceKey(baseKey, r) ==
  baseKey \o <<"_resources/">> \o getUrlHash(r.url) \o <<".">> \o r.extension

\* A metadata key built from the key of the page record, ".json" included.
MetadataKeyUnderJsonKey(baseKey, r) ==
  JsonKey(baseKey) \o <<"_resources/">> \o getUrlHash(r.url) \o <<".">> \o r.extension

\* The key listed for resource r in the page record:
\* `${baseKey}_resources/${getUrlHash(r.url)}.${r.extension}`
MetadataKey(baseKey, r) ==
  baseKey \o <<"_resources/">> \o getUrlHash(r.url) \o <<".">> \o r.extension

\* The resources field of the page record's body: result.resources?.map,
\* undefined when the PageResult has no resources field.
MetadataOf(result, domain) ==
  LET baseKey == getHierarchicalKey(result.url, domain) IN
  IF IsSome(result.resources)
  THEN Some([n \in 1..Len(Get(result.resources)) |->
               [ url |-> Get(result.resources)[n].url,
                 key |-> MetadataKey(baseKey, Get(result.resources)[n]),
                 type |-> Get(result.resources)[n].type ]])
  ELSE None

\* The keys one iteration of the persistence loop puts, in order: the page
\* record, then each resource.
KeysOf(result, domain) ==
  LET baseKey == getHierarchicalKey(result.url, domain)
      resources == IF IsSome(result.resources) THEN Get(result.resources)
                   ELSE << >>
  IN <<JsonKey(baseKey)>>
     \o [n \in 1..Len(resources) |-> ResourceKey(baseKey, resources[n])]

\* fs.writeFileSync(filePath, body) and PutObjectCommand: what the sink
\* held under the key is replaced.
Put(store, put) ==
  [k \in DOMAIN store \cup {put.key} |->
     IF k = put.key THEN [page |-> put.page, n |-> put.n] ELSE store[k]]

\* The sink after the puts of one iteration, in order; a put that threw
\* wrote nothing.
RECURSIVE PutAll(_, _)
PutAll(store, puts) ==
  IF puts = << >> THEN store
  ELSE PutAll(IF Head(puts).ok THEN Put(store, Head(puts)) ELSE store,
              Tail(puts))

\* main() after crawl() returned, up to the persistence loop: the domain is
\* the hostname of request.url, the sink is chosen, and the output
\* directory is created, which may throw.  The results of a run without
\* --include-resources carry an empty list of resources.
MainSaveStart ==
  /\ pc = "done"
  /\ caller.who = "main"
  /\ save.pc = "none"
  /\ \E sink \in Sinks, mkdirThrows \in BOOLEAN :
       /\ mkdirThrows => sink = "outputDir"
       /\ save' = [ pc |-> IF mkdirThrows THEN "rejected" ELSE "loop",
                    sink |-> sink,
                    domain |-> ParseURL(request.url).host,
                    pages |-> [k \in 1..Len(results) |->
                                 PageResult(results[k], Some(<< >>))],
                    next |-> 1,
                    puts |-> << >>,
                    store |-> << >> ]
  /\ UNCHANGED << crawlVars, fnVars, extract, disc >>

\* One iteration of the persistence loop: inside one try the page record is
\* put and then each resource in turn; the first put that throws ends the
\* iteration in the catch, which logs.  Without a sink nothing is put.
\* The put of the page record carries the resources metadata of its body
\* (listed).
SavePage ==
  /\ save.pc = "loop"
  /\ save.next <= Len(save.pages)
  /\ LET keys == KeysOf(save.pages[save.next], save.domain)
         metadata == MetadataOf(save.pages[save.next], save.domain) IN
     IF save.sink = "none"
     THEN save' = [save EXCEPT !.next = @ + 1]
     ELSE \E thrown \in 0..Len(keys) :
            LET made == IF thrown = 0 THEN Len(keys) ELSE thrown
                new == [n \in 1..made |->
                          [ page |-> save.next, n |-> n, key |-> keys[n],
                            ok |-> n # thrown,
                            listed |-> IF n = 1 THEN metadata ELSE None ]]
            IN save' = [save EXCEPT
                          !.next = @ + 1,
                          !.puts = @ \o new,
                          !.store = PutAll(@, new)]
  /\ UNCHANGED << crawlVars, fnVars, extract, disc >>

\* The loop is through: "All operations completed."
SaveEnd ==
  /\ save.pc = "loop"
  /\ save.next > Len(save.pages)
  /\ save' = [save EXCEPT !.pc = "end"]
  /\ UNCHANGED << crawlVars, fnVars, extract, disc >>

\* -------------------------------------------------------- discovery
\* this.baseUrl of the DiscoveryService: the origin of the URL given.
DiscoveryBase == RootBare

RobotsUrl == DiscoveryBase \o <<"/robots.txt">>

\* commonSitemaps, each appended to the base origin.
CommonSitemaps ==
  << DiscoveryBase \o <<"/sitemap.xml">>,
     DiscoveryBase \o <<"/sitemap_index.xml">>,
     DiscoveryBase \o <<"/wp-sitemap.xml">> >>

\* Sitemaps that robots.txt or a sitemap index may name.
SitemapA == <<Scheme, "h", "/a.xml">>

SitemapB == <<Scheme, "h", "/b.xml">>

SitemapC == <<Scheme, "h", "/c.xml">>

\* What axios.get(url) followed by parser.parse gives for a sitemap: the
\* call throws ("fails"), or the document is a sitemapindex or a urlset
\* with the <loc> of each entry (None for an entry without loc), or some
\* other document ("other").
FailedDoc == [kind |-> "fails", locs |-> << >>]

OtherDoc == [kind |-> "other", locs |-> << >>]

IndexDoc(locs) == [kind |-> "index", locs |-> locs]

UrlsetDoc(locs) == [kind |-> "urlset", locs |-> locs]

Urlset1 == UrlsetDoc(<< Some(PageA) >>)

Urlset3 == UrlsetDoc(<< Some(Root), Some(PageA), Some(PageAB) >>)

Urlset5 ==
  UrlsetDoc(<< Some(PageAx), Some(PageA), None, Some(NotAUrl), Some(OtherA),
               Some(PagePdf) >>)

\* The documents the site may answer a sitemap URL with.
DocsAt(url) ==
  IF url = SitemapA
  THEN {FailedDoc, IndexDoc(<< Some(SitemapB), Some(SitemapC) >>),
        IndexDoc(<< None >>)}
  ELSE IF url = SitemapB THEN {FailedDoc, OtherDoc, Urlset1, Urlset3}
  ELSE IF url = SitemapC THEN {Urlset5, UrlsetDoc(<< None >>),
                               IndexDoc(<< Some(SitemapB) >>),
                               IndexDoc(<< Some(SitemapC) >>)}
  ELSE IF url = CommonSitemaps[1] THEN {FailedDoc, Urlset1}
  ELSE IF url = CommonSitemaps[2] THEN {FailedDoc, IndexDoc(<< Some(SitemapB) >>)}
  ELSE IF url = CommonSitemaps[3] THEN {FailedDoc, Urlset1}
  ELSE {FailedDoc}

\* The loc values an entry list holds, in order: `if (x.loc)`.
Locs(entries) ==
  LET present == SelectSeq(entries, LAMBDA e : IsSome(e) /\ Get(e) # Empty)
  IN [i \in 1..Len(present) |-> Get(present[i])]

\* A line of robots.txt: "<key><sep><value>".
RobotsLine(key, sep, value) ==
  [key |-> key, sep |-> sep, value |-> value]

\* line.toLowerCase().startsWith('sitemap:')
IsSitemapLine(line) ==
  line.key \in {"sitemap", "Sitemap", "SITEMAP"} /\ line.sep \in {":", ": "}

\* line.split(': ')[1]?.trim(): undefined (None) when the line holds no
\* ": ".
SitemapUrlOf(line) ==
  IF line.sep = ": " THEN Some(line.value) ELSE None

\* The sitemap URLs getUrlsFromRobotsTxt resolves for the lines of a
\* robots.txt, in order.
SitemapUrlsOf(lines) ==
  Locs([i \in 1..Len(lines) |->
          IF IsSitemapLine(lines[i]) THEN SitemapUrlOf(lines[i]) ELSE None])

\* What axios.get(robotsUrl) may give: the call throws, a status that is
\* not 200, or status 200 and the text.
RobotsResponses ==
  {[throws |-> TRUE, status |-> 0, lines |-> << >>],
   [throws |-> FALSE, status |-> 404, lines |-> << >>]}
  \cup {[throws |-> FALSE, status |-> 200, lines |-> l] : l \in
         { << >>,
           << RobotsLine("User-agent", ": ", <<"*">>) >>,
           << RobotsLine("User-agent", ": ", <<"*">>),
              RobotsLine("Sitemap", ": ", SitemapA) >>,
           << RobotsLine("SITEMAP", ": ", SitemapB),
              RobotsLine("sitemap", ": ", SitemapC) >>,
           << RobotsLine("Sitemap", ":", SitemapB),
              RobotsLine("Disallow", ": ", <<"/", "a">>) >> }}

\* A robots.txt response as an entry of the request history: the sitemap
\* lines of a 200 response as a document of kind "robots".
RobotsDoc(response) ==
  IF response.throws THEN FailedDoc
  ELSE IF response.status # 200 THEN [kind |-> "absent", locs |-> << >>]
  ELSE [kind |-> "robots", locs |-> response.lines]

\* A call in progress: the sitemap-line loop of getUrlsFromRobotsTxt
\* ("lines"), its common-path loop ("common"), or the child loop of a
\* fetchSitemap on a sitemap index ("index"); todo are the URLs the loop
\* has still to fetch, urls what it has collected, of the url argument
\* of the fetchSitemap the loop belongs to.
Frame(kind, todo) ==
  [kind |-> kind, todo |-> todo, urls |-> << >>, of |-> Empty]

\* The child loop of fetchSitemap(url) on a sitemap index.
IndexFrame(url, locs) ==
  [Frame("index", locs) EXCEPT !.of = url]

\* How many calls in progress, one inside the other, the model follows.
MaxNesting == 4

\* Whether the loop of the frame is over: the common-path loop breaks as
\* soon as it holds a URL.
LoopOver(frame) ==
  \/ frame.todo = << >>
  \/ frame.kind = "common" /\ frame.urls # << >>

\* The returns of loops that are over, an index loop putting its urls in
\* front of those of the loop that called it.
RECURSIVE SettlePrepending(_)
SettlePrepending(stack) ==
  LET n == Len(stack)
      top == stack[n]
  IN IF ~LoopOver(top) THEN stack
     ELSE IF top.kind = "index"
     THEN SettlePrepending([SubSeq(stack, 1, n - 1) EXCEPT
                              ![n - 1].urls = top.urls \o stack[n - 1].urls])
     ELSE IF top.kind = "lines" /\ top.urls = << >>
     THEN SettlePrepending(<< Frame("common", CommonSitemaps) >>)
     ELSE stack

\* The calls in progress once every loop that is over has returned: an
\* index loop returns its urls to the loop that called it; a sitemap-line
\* loop that collected nothing goes on with the common paths; the
\* outermost loop that is over is left as the only frame.
RECURSIVE Settle(_)
Settle(stack) ==
  LET n == Len(stack)
      top == stack[n]
  IN IF ~LoopOver(top) THEN stack
     ELSE IF top.kind = "index"
     THEN Settle([SubSeq(stack, 1, n - 1) EXCEPT
                    ![n - 1].urls = stack[n - 1].urls \o top.urls])
     ELSE IF top.kind = "lines" /\ top.urls = << >>
     THEN Settle(<< Frame("common", CommonSitemaps) >>)
     ELSE stack

\* A loop that gives up on a call that failed, with what it had collected.
CollectOrGiveUp(frame, doc) ==
  IF doc.kind = "fails"
  THEN [frame EXCEPT !.todo = << >>, !.urls = << >>]
  ELSE [frame EXCEPT !.urls = @ \o (IF doc.kind = "urlset" THEN Locs(doc.locs)
                                    ELSE << >>)]

\* urls.push(...await this.fetchSitemap(url)) for a call that fetched a
\* document other than a sitemap index: the locs of a urlset are added
\* to what the loop has collected; a failed call and any other document
\* add nothing.
Collect(frame, doc) ==
  [frame EXCEPT !.urls = @ \o (IF doc.kind = "urlset" THEN Locs(doc.locs)
                               ELSE << >>)]

\* discover() continues after getUrlsFromRobotsTxt returned urls.
Resolved(d, stack) ==
  IF Len(stack) = 1 /\ LoopOver(stack[1])
  THEN [d EXCEPT !.pc = "decide", !.stack = << >>, !.urls = stack[1].urls,
                 !.sitemapUrls = stack[1].urls]
  ELSE [d EXCEPT !.pc = "resolving", !.stack = stack]

\* The first directory segment of a pathname, as a section: "/seg/", or
\* "/" for a path without segment.
SectionOf(pathname) ==
  LET start == CHOOSE i \in 1..(Len(pathname) + 1) :
                 /\ i = Len(pathname) + 1 \/ pathname[i] # Slash
                 /\ \A j \in 1..(i - 1) : pathname[j] = Slash
      stop == FirstIn(pathname, start, {Slash})
  IN IF start > Len(pathname) THEN <<Slash>>
     ELSE <<Slash>> \o SubSeq(pathname, start, stop - 1) \o <<Slash>>

\* An analyzeStructure that leaves out the strings that do not parse.
analyzeStructureOfParsed(urls) ==
  LET valid == SelectSeq(urls, LAMBDA u : ParseURL(u).ok)
      section(i) == SectionOf(ParseURL(valid[i]).pathname)
  IN [ totalUrls |-> Len(valid),
       urls |-> valid,
       sections |-> [s \in {section(i) : i \in 1..Len(valid)} |->
                       Cardinality({i \in 1..Len(valid) : section(i) = s})] ]

\* analyzeStructure(urls)
analyzeStructure(urls) ==
  LET parses == {i \in 1..Len(urls) : ParseURL(urls[i]).ok}
      section(i) == SectionOf(ParseURL(urls[i]).pathname)
  IN [ totalUrls |-> Len(urls),
       urls |-> urls,
       sections |-> [s \in {section(i) : i \in parses} |->
                       Cardinality({i \in parses : section(i) = s})] ]

\* discover() is called.
StartDiscovery ==
  [NoDiscovery EXCEPT !.pc = "robots"]

\* getUrlsFromRobotsTxt up to its first sitemap fetch: robots.txt is
\* requested; a thrown request and a status other than 200 return [];
\* otherwise the sitemap lines are to be resolved.
getUrlsFromRobotsTxt ==
  /\ disc.pc = "robots"
  /\ \E response \in RobotsResponses :
       LET asked == [disc EXCEPT !.fetched =
                       Append(disc.fetched, [url |-> RobotsUrl, doc |-> RobotsDoc(response)])]
       IN
       IF response.throws
       THEN disc' = [asked EXCEPT !.pc = "decide", !.robots = "throws"]
       ELSE IF response.status # 200
       THEN disc' = [asked EXCEPT !.pc = "decide", !.robots = "absent"]
       ELSE disc' = Resolved([asked EXCEPT !.robots = "ok"],
                             Settle(<< Frame("lines", SitemapUrlsOf(response.lines)) >>))
  /\ UNCHANGED << crawlVars, fnVars, extract, save >>

\* One fetchSitemap(url), for the next URL of the innermost loop: a
\* document that cannot be fetched or parsed, or is neither index nor
\* urlset, gives []; a urlset gives its locs; a sitemap index starts the
\* loop over its children.  Loops that are over return.
fetchSitemap ==
  /\ disc.pc = "resolving"
  /\ LET n == Len(disc.stack)
         url == Head(disc.stack[n].todo)
         popped == [disc.stack EXCEPT ![n].todo = Tail(disc.stack[n].todo)]
     IN \E doc \in DocsAt(url) :
          LET asked == [disc EXCEPT !.fetched =
                          Append(disc.fetched, [url |-> url, doc |-> doc])]
          IN
          IF doc.kind = "index"
          THEN /\ n < MaxNesting
               /\ disc' = Resolved(asked, Settle(Append(popped, IndexFrame(url, Locs(doc.locs)))))
          ELSE disc' = Resolved(asked,
                         Settle([popped EXCEPT ![n] = Collect(popped[n], doc)]))
  /\ UNCHANGED << crawlVars, fnVars, extract, save >>

\* A crawlForDiscovery with the defaults of main() for a crawl.
DiscoveryRequestOfMain ==
  [ url |-> DiscoveryBase, depth |-> Some(MainDefaultDepth),
    maxPages |-> Some(MainDefaultMaxPages), excludePatterns |-> None,
    includeUrls |-> None ]

\* The request of crawlForDiscovery.
DiscoveryRequest ==
  [ url |-> DiscoveryBase, depth |-> Some(3), maxPages |-> Some(200),
    excludePatterns |-> None, includeUrls |-> None ]

DiscoveryCaller ==
  [ who |-> "discover", urlArg |-> Some(DiscoveryBase), depthArg |-> None,
    maxPagesArg |-> None, manifestArg |-> None ]

\* discover() with urls from the sitemaps: the structure is analysed.
discoverFromSitemaps ==
  /\ disc.pc = "decide"
  /\ disc.urls # << >>
  /\ disc' = [disc EXCEPT !.pc = "returned",
                          !.structure = analyzeStructure(disc.urls)]
  /\ UNCHANGED << crawlVars, fnVars, extract, save >>

\* discover() without urls: crawlForDiscovery constructs a Crawler and
\* calls crawl().  The history of the sitemap requests ends here.
crawlForDiscovery ==
  /\ disc.pc = "decide"
  /\ disc.urls = << >>
  /\ NewCrawler(DiscoveryRequest, DiscoveryCaller)
  /\ disc' = [disc EXCEPT !.pc = "crawling", !.fetched = << >>]

\* crawl() returned: the urls are those of the results, and the
\* structure is analysed.
discoverFromCrawl ==
  /\ disc.pc = "crawling"
  /\ pc = "done"
  /\ disc' = [disc EXCEPT !.pc = "returned", !.urls = results,
                          !.structure = analyzeStructure(results)]
  /\ UNCHANGED << crawlVars, fnVars, extract, save >>

\* crawl() threw: so does discover().
discoverRejects ==
  /\ disc.pc = "crawling"
  /\ pc = "rejected"
  /\ disc' = [disc EXCEPT !.pc = "rejected"]
  /\ UNCHANGED << crawlVars, fnVars, extract, save >>

InitDiscover ==
  /\ InitCrawl
  /\ fnArg = Empty
  /\ fnRet = NoCall
  /\ disc = StartDiscovery
  /\ save = NoSave
  /\ extract = NoExtract

\* discover(); its fallback crawl runs at depth 3, where no queue entry is
\* deeper than request.depth and the loop never takes its `continue`.
NextDiscover ==
  \/ getUrlsFromRobotsTxt
  \/ fetchSitemap
  \/ discoverFromSitemaps
  \/ crawlForDiscovery
  \/ Launch
  \/ Seed
  \/ ProcessPage
  \/ NextLink
  \/ EndLinks
  \/ Return
  \/ discoverFromCrawl
  \/ discoverRejects

SpecDiscover == InitDiscover /\ [][NextDiscover]_vars

\* ------------------------------------------- the URL functions alone
\* The strings normalizeUrl and isValidUrl are applied to: "", strings
\* that are no absolute URL, and "http://h" followed by up to MaxTail
\* tokens of path, query and fragment.
TailTokens == {"/", "a", ".pdf", ".PDF", "?", "#"}

UrlStrings ==
  {Empty, <<"a">>, <<"/", "a">>, <<Scheme>>}
  \cup {<<Scheme, "h">> \o t : t \in SeqsUpTo(TailTokens, MaxTail)}

\* The base origins isValidUrl is applied with.
BaseUrls == {<<Scheme, "h">>, <<Scheme, "g">>}

\* The excludePatterns isValidUrl is applied with: absent, one literal,
\* one that does not compile, and two literals.
PatternChoices ==
  {None, Some(<< <<"/", "a">> >>), Some(<< <<"(">> >>),
   Some(<< <<"a", "a">>, <<"#">> >>)}

InitUrl ==
  /\ InitCrawl
  /\ fnArg \in UrlStrings
  /\ fnRet = NoCall
  /\ disc = NoDiscovery
  /\ save = NoSave
  /\ extract = NoExtract

\* normalizeUrl(fnArg)
CallNormalizeUrl ==
  /\ fnRet.fn = "none"
  /\ fnRet' = [fnRet EXCEPT !.fn = "normalizeUrl", !.once = normalizeUrl(fnArg)]
  /\ UNCHANGED << crawlVars, fnArg, disc, save, extract >>

\* normalizeUrl applied to what normalizeUrl(fnArg) returned.
CallNormalizeUrlAgain ==
  /\ fnRet.fn = "normalizeUrl"
  /\ fnRet' = [fnRet EXCEPT !.fn = "normalizeUrlTwice",
                            !.twice = normalizeUrl(fnRet.once)]
  /\ UNCHANGED << crawlVars, fnArg, disc, save, extract >>

\* isValidUrl(fnArg) in a Crawler with the given baseUrl and
\* request.excludePatterns.
CallIsValidUrl ==
  /\ fnRet.fn = "none"
  /\ \E base \in BaseUrls, patterns \in PatternChoices :
       fnRet' = [fnRet EXCEPT !.fn = "isValidUrl", !.base = base,
                              !.patterns = patterns,
                              !.valid = isValidUrl(fnArg, base, patterns)]
  /\ UNCHANGED << crawlVars, fnArg, disc, save, extract >>

\* The domains a key is derived under: hostnames.
Domains == {<<"h">>, <<"g">>}

\* The page key of fnArg under a domain: getHierarchicalKey and the
\* ".json" main() appends.
CallGetHierarchicalKey ==
  /\ fnRet.fn = "none"
  /\ \E domain \in Domains :
       fnRet' = [fnRet EXCEPT !.fn = "getHierarchicalKey", !.domain = domain,
                              !.key = JsonKey(getHierarchicalKey(fnArg, domain))]
  /\ UNCHANGED << crawlVars, fnArg, disc, save, extract >>

NextUrl ==
  \/ CallNormalizeUrl
  \/ CallNormalizeUrlAgain
  \/ CallIsValidUrl
  \/ CallGetHierarchicalKey

SpecUrl == InitUrl /\ [][NextUrl]_vars

Next ==
  \/ DirectCrawl
  \/ MainIngest
  \/ Launch
  \/ Seed
  \/ SkipTooDeep
  \/ ProcessPage
  \/ NextLink
  \/ EndLinks
  \/ Return
  \/ MainSaveStart
  \/ SavePage
  \/ SaveEnd

Spec == Init /\ [][Next]_vars

\* The results a crawl with --include-resources may hand to the persistence
\* loop: one or two pages of the site, each with its resources.
SaveResults ==
  {<<PageResult(Root, r)>> : r \in ResourceLists}
  \cup {<<PageResult(Root, r), PageResult(PageA, q)>> :
          r \in ResourceLists, q \in ResourceLists}

\* main() at its persistence loop, after a crawl of "http://h/" that
\* returned the pages of `pages`.
SaveAfterCrawl(pages, sink) ==
  LET entries == [k \in 1..Len(pages) |->
                    [url |-> pages[k].url, depth |-> k - 1, dist |-> k - 1]]
  IN /\ pc = "done"
     /\ request = MainRequest(Some(Root), None, None, None)
     /\ caller = MainCaller(Some(Root), None, None, None)
     /\ baseUrl = Origin(ParseURL(Root))
     /\ visitedUrls = {pages[k].url : k \in 1..Len(pages)}
     /\ results = [k \in 1..Len(pages) |-> pages[k].url]
     /\ queue = << >>
     /\ maxPages = MainDefaultMaxPages
     /\ pagesProcessed = Len(pages)
     /\ browser = "closed"
     /\ current = NoEntry
     /\ link = Empty
     /\ linkIndex = 0
     /\ enqueued = entries
     /\ earlier = 0
     /\ attempts = [k \in 1..Len(pages) |->
                      [url |-> entries[k].url, depth |-> entries[k].depth,
                       dist |-> entries[k].dist, ok |-> TRUE, failed |-> FALSE,
                       final |-> IF k = 1 THEN Some(entries[k].url) ELSE None]]
     /\ save = [ pc |-> "loop", sink |-> sink,
                 domain |-> ParseURL(Root).host, pages |-> pages,
                 next |-> 1, puts |-> << >>, store |-> << >> ]

InitSave ==
  /\ \E pages \in SaveResults, sink \in Sinks : SaveAfterCrawl(pages, sink)
  /\ fnArg = Empty
  /\ fnRet = NoCall
  /\ disc = NoDiscovery
  /\ extract = NoExtract

NextSave ==
  \/ SavePage
  \/ SaveEnd

SpecSave == InitSave /\ [][NextSave]_vars

\* "http://h/index" and "http://h/a?a".
RootIndex == <<Scheme, "h", "/", "index">>

PageAQuery == <<Scheme, "h", "/", "a", "?", "a">>

\* main() at its persistence loop, after a manifest run without --url in
\* which every listed page was rendered: crawl() returned one PageResult
\* per listed URL, in order, and request.url is the first of them.
SaveAfterManifest(urls, sink) ==
  LET manifestArg == Some([exists |-> TRUE, parses |-> TRUE, urls |-> Some(urls)])
      entries == ManifestEntries(urls)
  IN /\ pc = "done"
     /\ request = MainRequest(None, None, None, manifestArg)
     /\ caller = MainCaller(None, None, None, manifestArg)
     /\ baseUrl = Origin(ParseURL(urls[1]))
     /\ visitedUrls = {normalizeUrl(urls[k]) : k \in 1..Len(urls)}
     /\ results = urls
     /\ queue = << >>
     /\ maxPages = Len(urls)
     /\ pagesProcessed = Len(urls)
     /\ browser = "closed"
     /\ current = NoEntry
     /\ link = Empty
     /\ linkIndex = 0
     /\ enqueued = entries
     /\ earlier = 0
     /\ attempts = [k \in 1..Len(urls) |->
                      [url |-> entries[k].url, depth |-> entries[k].depth,
                       dist |-> entries[k].dist, ok |-> TRUE, failed |-> FALSE,
                       final |-> None]]
     /\ save = [ pc |-> "loop", sink |-> sink,
                 domain |-> ParseURL(urls[1]).host,
                 pages |-> [k \in 1..Len(urls) |->
                              PageResult(urls[k], Some(<< >>))],
                 next |-> 1, puts |-> << >>, store |-> << >> ]

\* The manifests whose pages are persisted list the root and a literal
\* "/index", "/a" with and without a trailing slash, with a query string
\* and with a fragment, "/a" of another host, and "/a/b".
InitKeyed ==
  /\ \E urls \in SeqsUpTo({Root, RootIndex, PageA, PageASlash, PageAQuery,
                            PageA \o <<"#">>, OtherA, PageAB},
                           MaxManifest) \ {<< >>},
        sink \in Sinks :
       SaveAfterManifest(urls, sink)
  /\ fnArg = Empty
  /\ fnRet = NoCall
  /\ disc = NoDiscovery
  /\ extract = NoExtract

SpecKeyed == InitKeyed /\ [][NextSave]_vars

\* ------------------------------------------------ resource extraction
\* The most img elements, and the most matching anchors, of a page.
MaxAssets == 2

\* What img.src gives besides a data URI: "http://h/b".
AssetImg == <<Scheme, "h", "/", "b">>

\* url.startsWith('http'): of the strings here, those whose first token is
\* the scheme "http://".
StartsWithHttp(url) ==
  Len(url) > 0 /\ url[1] = Scheme

\* [...new Set(urls)]: each string once, in the order of first appearance.
RECURSIVE Distinct(_)
Distinct(urls) ==
  IF urls = << >> THEN << >>
  ELSE LET front == Distinct(DropLast(urls))
           last == urls[Len(urls)]
       IN IF \E i \in 1..Len(front) : front[i] = last
          THEN front ELSE Append(front, last)

\* allUrls without the Set: every candidate as often as the page has it.
AllUrlsRepeated(imageUrls, pdfUrls) ==
  imageUrls \o pdfUrls

\* allUrls of extractResources.
AllUrls(imageUrls, pdfUrls) ==
  Distinct(imageUrls \o pdfUrls)

\* The content-type headers of a response: absent, "image/png", "image/"
\* (nothing after the slash), "application/pdf" and "text/html".
ContentTypes ==
  {None, Some(<<"image", "/", "png">>), Some(<<"image", "/">>),
   Some(<<"application", "/", "pdf">>), Some(<<"text", "/", "html">>)}

\* contentType.split('/')[1]: what stands between the first "/" and the
\* next one, undefined when there is no "/".
SplitSlashSecond(contentType) ==
  LET first == FirstIn(contentType, 1, {"/"})
      second == FirstIn(contentType, first + 1, {"/"})
  IN IF first > Len(contentType) THEN None
     ELSE Some(SubSeq(contentType, first + 1, second - 1))

\* path.extname(url).replace('.', ''): the extension token the string ends
\* with, without its dot, or "".
ExtnameNoDot(url) ==
  IF Len(url) = 0 THEN Empty
  ELSE CASE url[Len(url)] = ".pdf" -> <<"pdf">>
         [] url[Len(url)] = ".PDF" -> <<"PDF">>
         [] OTHER -> Empty

\* The PageResource pushed for a response with this content-type header
\* (the buffer is left out).
ResourceOf(url, contentType) ==
  IF IsSome(contentType) /\ Includes(Get(contentType), <<"image">>)
  THEN LET sub == SplitSlashSecond(Get(contentType))
       IN [ url |-> url, type |-> "image",
            extension |-> IF IsSome(sub) /\ Get(sub) # Empty
                          THEN Get(sub) ELSE <<"jpg">> ]
  ELSE IF IsSome(contentType) /\ Includes(Get(contentType), <<"pdf">>)
  THEN [ url |-> url, type |-> "pdf", extension |-> <<"pdf">> ]
  ELSE [ url |-> url, type |-> "other", extension |-> ExtnameNoDot(url) ]

\* extractContent(page, url) has the title, the text and the links and
\* stands before `if (this.request.includeResources)`; the page has the
\* img elements of imageUrls and the anchors of pdfUrls.
StartExtract(includeResources, imageUrls, pdfUrls) ==
  [ pc |-> "content", includeResources |-> includeResources,
    imageUrls |-> imageUrls, pdfUrls |-> pdfUrls, allUrls |-> << >>,
    next |-> 1, fetches |-> << >>, resources |-> << >> ]

\* extractContent from `let resources = []` on: without includeResources
\* it returns at once; with it extractResources evaluates the two
\* selectors in the page, either of which may throw (the page is gone),
\* and builds allUrls.
extractContent ==
  /\ extract.pc = "content"
  /\ IF ~extract.includeResources
     THEN extract' = [extract EXCEPT !.pc = "returned"]
     ELSE \E evaluateThrows \in BOOLEAN :
            extract' =
              IF evaluateThrows
              THEN [extract EXCEPT !.pc = "rejected"]
              ELSE [extract EXCEPT
                      !.pc = "loop",
                      !.allUrls = AllUrls(extract.imageUrls, extract.pdfUrls)]
  /\ UNCHANGED << crawlVars, fnVars, disc, save >>

\* One pass of `for (const url of allUrls)`: a URL that does not start
\* with "http" is skipped; axios.get either throws, which the empty catch
\* swallows, or answers with a content-type header, and the resource is
\* pushed.
extractResources ==
  /\ extract.pc = "loop"
  /\ extract.next <= Len(extract.allUrls)
  /\ LET url == extract.allUrls[extract.next] IN
     IF ~StartsWithHttp(url)
     THEN extract' = [extract EXCEPT !.next = @ + 1]
     ELSE \E getThrows \in BOOLEAN, contentType \in ContentTypes :
            /\ getThrows => contentType = None
            /\ extract' =
                 [extract EXCEPT
                    !.next = @ + 1,
                    !.fetches = Append(@, [url |-> url, ok |-> ~getThrows]),
                    !.resources = IF getThrows THEN @
                                  ELSE Append(@, ResourceOf(url, contentType))]
  /\ UNCHANGED << crawlVars, fnVars, disc, save >>

\* The loop is over: extractResources returns resources and extractContent
\* returns the PageResult that carries them.
returnContent ==
  /\ extract.pc = "loop"
  /\ extract.next > Len(extract.allUrls)
  /\ extract' = [extract EXCEPT !.pc = "returned"]
  /\ UNCHANGED << crawlVars, fnVars, disc, save >>

\* The page has up to MaxAssets img elements, each "http://h/b" or the
\* data URI "data:a", which does not start with "http", and up to
\* MaxAssets matching anchors, each "http://h/a.pdf" or "http://h/b".
InitExtract ==
  /\ InitCrawl
  /\ fnArg = Empty
  /\ fnRet = NoCall
  /\ disc = NoDiscovery
  /\ save = NoSave
  /\ \E includeResources \in BOOLEAN,
        imageUrls \in SeqsUpTo({AssetImg, <<"data:", "a">>}, MaxAssets),
        pdfUrls \in SeqsUpTo({PagePdf, AssetImg}, MaxAssets) :
       extract = StartExtract(includeResources, imageUrls, pdfUrls)

NextExtract ==
  \/ extractContent
  \/ extractResources
  \/ returnContent

SpecExtract == InitExtract /\ [][NextExtract]_vars

\* The requests of the Crawlers that are invoked more than once: the site
\* from "http://h/a", one level of links, one page or the default limit.
ReuseRequests ==
  [ url : {PageA}, depth : {Some(1)}, maxPages : {None, Some(1)},
    excludePatterns : {None}, includeUrls : {None} ]

\* A caller constructs a Crawler it will invoke more than once.
ReuseCrawl ==
  /\ pc = "start"
  /\ \E req \in ReuseRequests : NewCrawler(req, DirectCaller)
  /\ UNCHANGED disc

\* A Crawler invoked repeatedly; at depth 1 no queue entry is deeper than
\* request.depth and the loop never takes its `continue`.
NextReuse ==
  \/ ReuseCrawl
  \/ Launch
  \/ Seed
  \/ ProcessPage
  \/ NextLink
  \/ EndLinks
  \/ Return
  \/ CrawlAgain

SpecReuse == Init /\ [][NextReuse]_vars

\* crawl() and main() run in one thread of control and every awaited call
\* returns or throws: a step that can be taken is taken.
SpecLive == Spec /\ WF_vars(Next)

\* ----------------------------------------------------------- properties
\* The run is past seeding and crawl() has not thrown.
Seeded == pc \in {"draining", "expanding", "done"}

\* The [url, depth, dist] entries of a sequence of attempts.
EntriesOf(as) ==
  [i \in 1..Len(as) |-> [url |-> as[i].url, depth |-> as[i].depth, dist |-> as[i].dist]]

UrlsOf(es) ==
  [i \in 1..Len(es) |-> es[i].url]

\* The attempts that produced a PageResult.
Produced == SelectSeq(attempts, LAMBDA a : a.ok)

\* C1: in every state of every run the number of accumulated PageResults
\* is at most request.maxPages, or 50 when the request carries none;
\* so is the number a completed run returns.
C1_ResultsWithinMaxPages ==
  pc # "start" =>
    Len(results) <= (IF request.maxPages = None THEN 50 ELSE request.maxPages[1])

\* A completed run that the page limit cut short, with a failed page in it.
C1_Witness ==
  /\ pc = "done"
  /\ request.maxPages = Some(2)
  /\ Len(results) = 2
  /\ queue # << >>
  /\ \E i \in 1..Len(attempts) : ~attempts[i].ok

\* C2: every page in the results was dequeued at a depth that is its number
\* of enqueue steps from the seed and is at most request.depth; with depth 0
\* only the start page is processed, with depth 1 only the start page and
\* links found directly on it.
C2_ResultsWithinDepth ==
  /\ UrlsOf(Produced) = results
  /\ \A i \in 1..Len(Produced) :
       /\ Produced[i].depth = Produced[i].dist
       /\ request.depth # None => Produced[i].dist <= request.depth[1]
       /\ (request.depth = Some(0) /\ ~ManifestMode(request))
            => Produced[i].url = request.url
       /\ (request.depth = Some(1) /\ ~ManifestMode(request))
            => (Produced[i].url = request.url \/ Produced[i].dist = 1)

\* A completed run with depth 1 that processed the start page and a link of
\* it, and left nothing in the queue.
C2_Witness ==
  /\ pc = "done"
  /\ request.depth = Some(1)
  /\ queue = << >>
  /\ Len(results) >= 2
  /\ \E i \in 1..Len(Produced) : Produced[i].dist = 1

\* C3: no two queue entries created during a run, whether seeded from the
\* seed URL, seeded from includeUrls or discovered as links, have the same
\* normalized URL.
C3_NoUrlEnqueuedTwice ==
  \A i, j \in 1..Len(enqueued) :
    i < j => normalizeUrl(enqueued[i].url) # normalizeUrl(enqueued[j].url)

\* The page limit crawl() applies to the request: request.maxPages, or 50.
LimitOf(req) ==
  IF req.maxPages = None THEN 50 ELSE req.maxPages[1]

OriginOf(url) == Origin(ParseURL(url))

\* C6: in non-manifest mode every link enqueued, and every link rendered,
\* has the origin currently used for the same-origin check: the seed's
\* origin, or the redirected origin after rebasing.
C6_OneOrigin ==
  ~ManifestMode(request) =>
    /\ \A i \in 2..Len(enqueued) : OriginOf(enqueued[i].url) = baseUrl
    /\ \A i \in 1..Len(attempts) :
         attempts[i].dist > 0 => OriginOf(attempts[i].url) = baseUrl

\* After a redirect rebased the crawl to another origin, a link of the new
\* origin was enqueued and a link of the seed's origin is passed over.
C6_Witness ==
  /\ pc = "expanding"
  /\ request.url = RootBare
  /\ baseUrl = <<Scheme, "h", "g">>
  /\ UrlsOf(enqueued) = <<RootBare, LongHostA>>
  /\ link = PageA
  /\ linkIndex = 2

\* Path p is path root itself or a sub-path of it.
UnderPath(p, root) ==
  LET dir == IF EndsWithSlash(root) THEN root ELSE Append(root, Slash)
  IN p = root \/ Append(p, Slash) = dir \/ StartsWith(p, dir)

\* C7: in a non-manifest run started at a seed with a deep path P, the path
\* of every enqueued URL is P or a sub-path of P.
C7_SubPathContainment ==
  (Seeded /\ ~ManifestMode(request) /\ ParseURL(request.url).pathname # <<Slash>>) =>
    \A i \in 1..Len(enqueued) :
      UnderPath(ParseURL(enqueued[i].url).pathname, ParseURL(request.url).pathname)

\* The entries taken off the queue so far, in the order they were created.
Dequeued == SubSeq(enqueued, 1, Len(enqueued) - Len(queue))

\* The entries of es within the depth limit.
WithinDepth(es) ==
  SelectSeq(es, LAMBDA e : request.depth = None \/ e.depth <= request.depth[1])

\* C8: entries leave the queue in the order they were enqueued, so the
\* depths of successive results never decrease; when a run completes without
\* a failed page and at least maxPages entries within the depth limit were
\* enqueued, exactly maxPages pages are processed: the earliest enqueued.
C8_BreadthFirst ==
  Seeded =>
    /\ Len(queue) <= Len(enqueued)
    /\ queue = SubSeq(enqueued, Len(enqueued) - Len(queue) + 1, Len(enqueued))
    /\ EntriesOf(attempts) = WithinDepth(Dequeued)
    /\ \A i, j \in 1..Len(Produced) : i < j => Produced[i].depth <= Produced[j].depth
    /\ (/\ pc = "done"
        /\ \A i \in 1..Len(attempts) : attempts[i].ok
        /\ Len(WithinDepth(enqueued)) >= maxPages)
         => results = SubSeq(UrlsOf(WithinDepth(enqueued)), 1, maxPages)

\* depth 1, maxPages 3, a start page with three links that are enqueued:
\* the run returns the start page and the first two, the third is left.
C8_Witness ==
  /\ pc = "done"
  /\ request.depth = Some(1)
  /\ maxPages = 3
  /\ UrlsOf(enqueued) = <<Root, PageA, PageAB, PageAx>>
  /\ results = <<Root, PageA, PageAB>>
  /\ UrlsOf(queue) = <<PageAx>>

\* C9: for every string that parses as a URL, normalizeUrl applied to
\* normalizeUrl's result returns that result.
C9_NormalizeIdempotent ==
  (fnRet.fn = "normalizeUrlTwice" /\ ParseURL(fnArg).ok) => fnRet.twice = fnRet.once

\* Every listed pattern compiles and none occurs in the URL string.
NoPatternMatches(url, patterns) ==
  patterns # None =>
    \A i \in 1..Len(patterns[1]) :
      /\ \A k \in 1..Len(patterns[1][i]) : patterns[1][i][k] # "("
      /\ ~Includes(url, patterns[1][i])

\* C10: isValidUrl returns true only for a string that parses, has the base
\* origin, matches no exclude pattern (tested on the whole string) and whose
\* path does not end in a listed extension; it returns false for a .pdf or
\* .PDF path of the base origin, for another origin, for a URL matching a
\* pattern and for a string that does not parse; it returns true for a path
\* of the base origin without extension and without patterns; it never
\* raises.
C10_IsValidUrl ==
  fnRet.fn = "isValidUrl" =>
    LET parsed == ParseURL(fnArg)
        last == parsed.pathname[Len(parsed.pathname)]
    IN /\ ~fnRet.valid.raised
       /\ fnRet.valid.value =>
            /\ parsed.ok
            /\ <<Scheme>> \o parsed.host = fnRet.base
            /\ NoPatternMatches(fnArg, fnRet.patterns)
            /\ last \notin Extensions
       /\ ~parsed.ok => ~fnRet.valid.value
       /\ (parsed.ok /\ last \in {".pdf", ".PDF"}) => ~fnRet.valid.value
       /\ (parsed.ok /\ <<Scheme>> \o parsed.host # fnRet.base) => ~fnRet.valid.value
       /\ (parsed.ok /\ ~NoPatternMatches(fnArg, fnRet.patterns)) => ~fnRet.valid.value
       /\ (/\ parsed.ok
           /\ <<Scheme>> \o parsed.host = fnRet.base
           /\ fnRet.patterns = None
           /\ last \in {"/", "a"})
            => fnRet.valid.value

\* isValidUrl was applied to "http://h/a.PDF" with base origin "http://h"
\* and no exclude pattern, and returned false.
C10_Witness ==
  /\ fnRet.fn = "isValidUrl"
  /\ fnArg = <<Scheme, "h", "/", "a", ".PDF">>
  /\ fnRet.base = <<Scheme, "h">>
  /\ fnRet.patterns = None
  /\ ~fnRet.valid.value
  /\ ~fnRet.valid.raised

\* The URLs a sequence of sitemap requests yields, read from the request
\* history from entry i on: a urlset yields its locs, a sitemap index what
\* the requests for its children yield, one after the other; any other
\* answer yields nothing.  [urls, next]: next is the entry after the last
\* request made for it.
RECURSIVE YieldOf(_, _)
RECURSIVE YieldOfAll(_, _, _)
YieldOf(log, i) ==
  IF log[i].doc.kind = "urlset"
  THEN [urls |-> Locs(log[i].doc.locs), next |-> i + 1]
  ELSE IF log[i].doc.kind = "index"
  THEN YieldOfAll(log, i + 1, Len(Locs(log[i].doc.locs)))
  ELSE [urls |-> << >>, next |-> i + 1]

\* The same for k requests in a row.
YieldOfAll(log, i, k) ==
  IF k = 0 THEN [urls |-> << >>, next |-> i]
  ELSE LET first == YieldOf(log, i)
           rest == YieldOfAll(log, first.next, k - 1)
       IN [urls |-> first.urls \o rest.urls, next |-> rest.next]

\* The sitemap URLs a robots.txt of the request history names.
NamedBy(entry) ==
  LET named == SelectSeq(entry.doc.locs,
                 LAMBDA line : line.key \in {"sitemap", "Sitemap", "SITEMAP"}
                               /\ line.sep = ": ")
  IN [i \in 1..Len(named) |-> named[i].value]

\* C11: when the sitemaps named in robots.txt yield URLs, what
\* getUrlsFromRobotsTxt returns is, sitemap by sitemap in order, every loc
\* of a urlset and, for a sitemap index, the URL lists of its children one
\* after the other in document order.
C11_SitemapResolution ==
  (disc.pc = "decide" /\ disc.robots = "ok") =>
    LET fromRobots == YieldOfAll(disc.fetched, 2, Len(NamedBy(disc.fetched[1])))
    IN fromRobots.urls # << >> =>
         /\ disc.sitemapUrls = fromRobots.urls
         /\ fromRobots.next = Len(disc.fetched) + 1

\* An index with two children, a urlset of 3 URLs and a urlset of 5, was
\* resolved to 8 URLs.
C11_Witness ==
  /\ disc.pc = "decide"
  /\ Len(disc.fetched) = 4
  /\ disc.fetched[2] = [url |-> SitemapA,
                        doc |-> IndexDoc(<< Some(SitemapB), Some(SitemapC) >>)]
  /\ disc.fetched[3] = [url |-> SitemapB, doc |-> Urlset3]
  /\ disc.fetched[4] = [url |-> SitemapC, doc |-> Urlset5]
  /\ disc.sitemapUrls = << Root, PageA, PageAB, PageAx, PageA, NotAUrl, OtherA, PagePdf >>

\* The common paths requested so far, in the order of the requests.
Probed ==
  LET probes == SelectSeq(disc.fetched,
                  LAMBDA entry : \E i \in 1..3 : entry.url = CommonSitemaps[i])
  IN [i \in 1..Len(probes) |-> probes[i].url]

\* The entry of the request history that answers the request for a common
\* path yields nothing.
ProbeYieldsNothing(url) ==
  \A i \in 1..Len(disc.fetched) :
    disc.fetched[i].url = url => YieldOf(disc.fetched, i).urls = << >>

\* C12: when getUrlsFromRobotsTxt returns after robots.txt was absent (not
\* 200, or its request failed) or named no sitemap that yields a URL, the
\* common paths were probed in their order, up to and including the first
\* that yields a URL; they were not probed when the sitemaps of robots.txt
\* yielded a URL.
C12_CommonPathProbes ==
  disc.pc = "decide" =>
    LET named == IF disc.robots = "ok"
                 THEN YieldOfAll(disc.fetched, 2, Len(NamedBy(disc.fetched[1]))).urls
                 ELSE << >>
    IN IF named # << >>
       THEN Probed = << >>
       ELSE /\ Probed # << >>
            /\ Probed = SubSeq(CommonSitemaps, 1, Len(Probed))
            /\ \A i \in 1..(Len(Probed) - 1) : ProbeYieldsNothing(Probed[i])
            /\ Len(Probed) < 3 => ~ProbeYieldsNothing(Probed[Len(Probed)])

\* C13: discover() crawls exactly when getUrlsFromRobotsTxt returned no
\* URL; the crawl is one of depth 3 and maxPages 200 from the base origin;
\* the structure returned is that of the URLs of the sitemaps, or of the
\* crawl results when there were none.
C13_FallbackCrawl ==
  /\ disc.pc \in {"robots", "resolving", "decide"} => pc = "start"
  /\ disc.pc \in {"crawling", "rejected"} =>
       /\ disc.sitemapUrls = << >>
       /\ request.url = <<Scheme, "h">>
       /\ request.depth = Some(3)
       /\ request.maxPages = Some(200)
       /\ Seeded => maxPages = 200
  /\ disc.pc = "returned" =>
       /\ (pc # "start") <=> (disc.sitemapUrls = << >>)
       /\ pc # "start" => (pc = "done" /\ request.depth = Some(3)
                           /\ request.maxPages = Some(200))
       /\ disc.structure.urls =
            (IF disc.sitemapUrls # << >> THEN disc.sitemapUrls ELSE results)
       /\ disc.structure.totalUrls = Len(disc.structure.urls)

\* robots.txt named no sitemap and the common paths yielded nothing; the
\* crawl returned two pages, and discover() their structure.
C13_Witness ==
  /\ disc.pc = "returned"
  /\ disc.robots = "ok"
  /\ disc.sitemapUrls = << >>
  /\ results = << RootBare, PageA >>
  /\ disc.structure.totalUrls = 2
  /\ disc.structure.urls = results

\* C14: the page key of a URL under a domain is the domain, the URL's path
\* with one trailing '/' stripped and '/' rewritten to '/index', and
\* '.json'; for a string that does not parse it is the domain, '/', the md5
\* of the string and '.json'.  "http://h/a/" under h gives "h/a.json",
\* "http://h/" gives "h/index.json".
C14_HierarchicalKey ==
  fnRet.fn = "getHierarchicalKey" =>
    LET parsed == ParseURL(fnArg)
        p == parsed.pathname
        stripped == IF Len(p) > 1 /\ p[Len(p)] = "/" THEN SubSeq(p, 1, Len(p) - 1) ELSE p
        path == IF stripped = <<"/">> THEN <<"/", "index">> ELSE stripped
    IN /\ parsed.ok => (p[1] = "/" /\ fnRet.key = fnRet.domain \o path \o <<".json">>)
       /\ ~parsed.ok =>
            fnRet.key = fnRet.domain \o <<"/", "md5(">> \o fnArg \o <<")", ".json">>
       /\ fnArg = <<"http://", "h", "/", "a", "/">> =>
            fnRet.key = fnRet.domain \o <<"/", "a", ".json">>
       /\ fnArg = <<"http://", "h", "/">> =>
            fnRet.key = fnRet.domain \o <<"/", "index", ".json">>

\* The key of "http://h/a/?", a URL with a query mark, under the domain h
\* is "h/a.json".
C14_Witness ==
  /\ fnRet.fn = "getHierarchicalKey"
  /\ fnArg = <<Scheme, "h", "/", "a", "/", "?">>
  /\ fnRet.domain = <<"h">>
  /\ fnRet.key = <<"h", "/", "a", ".json">>

\* C15: a page whose processing failed at any step added no PageResult and
\* did not count as processed: results and the processed count are those
\* of the pages that did not fail.
C15_FailedPageSkipped ==
  Seeded =>
    LET sound == SelectSeq(attempts, LAMBDA a : ~a.failed)
    IN /\ results = UrlsOf(sound)
       /\ pagesProcessed = Len(sound)

\* C16: crawl() throws only before its loop; once the queue is seeded, no
\* failure of a page makes it throw.
C16_PageFailureDoesNotAbort ==
  pc = "rejected" => enqueued = << >>

\* C17: once the loop of crawl() is entered it is eventually left with
\* crawl() returning, and then the queue is empty or the processed count
\* is maxPages.
C17_LoopReachesDone ==
  (pc = "draining") ~>
    (pc = "done" /\ (queue = << >> \/ pagesProcessed = maxPages))

\* C18: no run of crawl() ends, by return or by exception, with the
\* browser open.
C18_BrowserReleased ==
  pc \in {"done", "rejected"} => browser # "open"

\* The puts the persistence loop owes its results: every key of every page.
OwedPuts ==
  UNION {{<<k, n>> : n \in 1..Len(KeysOf(save.pages[k], save.domain))} :
           k \in 1..Len(save.pages)}

\* C19: when the persistence loop is through with a sink, it has put every
\* page record and every resource, whichever puts failed.
C19_EveryOtherPutMade ==
  (save.pc = "end" /\ save.sink # "none") =>
    \A o \in OwedPuts :
      \E p \in 1..Len(save.puts) :
        save.puts[p].page = o[1] /\ save.puts[p].n = o[2]

\* The configuration main() was started with fails: neither --url nor
\* --manifest; a manifest file that is missing; one that is not JSON; or,
\* without --url, a manifest that gives no url.
ConfigFails ==
  /\ caller.who = "main"
  /\ \/ ~IsSome(caller.urlArg) /\ ~IsSome(caller.manifestArg)
     \/ /\ IsSome(caller.manifestArg)
        /\ LET file == Get(caller.manifestArg) IN
           \/ ~file.exists
           \/ ~file.parses
           \/ /\ ~IsSome(caller.urlArg)
              /\ (IsSome(file.urls) => Get(file.urls) = << >>)

\* C20: after a configuration failure main() has ended without constructing
\* a Crawler, without launching a browser or opening a page, and without
\* putting anything to a sink.
C20_ConfigFailureIsFatal ==
  ConfigFails =>
    /\ pc = "exit"
    /\ request = NoRequest
    /\ baseUrl = Empty
    /\ browser = "none"
    /\ enqueued = << >>
    /\ attempts = << >>
    /\ save = NoSave

\* main() was given --url and a manifest file that is missing, and has ended.
C20_Witness ==
  /\ ConfigFails
  /\ pc = "exit"
  /\ IsSome(caller.urlArg)
  /\ ~Get(caller.manifestArg).exists

\* C21: the results of an invocation of crawl() are the pages that
\* invocation produced, and its visited set holds the URLs it has itself
\* queued and nothing else.
C21_InvocationOwnsItsState ==
  Seeded =>
    /\ pc = "done" => results = UrlsOf(SelectSeq(attempts, LAMBDA a : a.ok))
    /\ visitedUrls = {normalizeUrl(enqueued[i].url) : i \in 1..Len(enqueued)}

\* The sitemaps whose fetchSitemap call is in progress, outermost first.
InProgress ==
  LET calls == SelectSeq(disc.stack, LAMBDA frame : frame.kind = "index")
  IN [i \in 1..Len(calls) |-> calls[i].of]

\* C22: sitemap resolution never starts resolving a sitemap inside the
\* resolution of that same sitemap, so that on a site of finitely many
\* sitemaps the calls are nested finitely deep and every one returns.
C22_NoSitemapResolvedWithinItself ==
  \A i, j \in 1..Len(InProgress) :
    InProgress[i] = InProgress[j] => i = j

\* The entries of the request history after entry i that ask for url.
AskedAfter(i, url) ==
  {j \in (i + 1)..Len(disc.fetched) : disc.fetched[j].url = url}

\* C23: when getUrlsFromRobotsTxt has returned, every sitemap named by a
\* sitemap line of robots.txt or by a sitemap index was itself requested,
\* and every loc of every urlset received is among the URLs returned,
\* whichever of the requests failed.
C23_SiblingsStillCollected ==
  (disc.pc = "decide" /\ disc.robots = "ok") =>
    \A i \in 1..Len(disc.fetched) :
      LET doc == disc.fetched[i].doc IN
      /\ doc.kind = "robots" =>
           \A k \in 1..Len(NamedBy(disc.fetched[i])) :
             AskedAfter(i, NamedBy(disc.fetched[i])[k]) # {}
      /\ doc.kind = "index" =>
           \A k \in 1..Len(Locs(doc.locs)) :
             AskedAfter(i, Locs(doc.locs)[k]) # {}
      /\ doc.kind = "urlset" =>
           \A k \in 1..Len(Locs(doc.locs)) :
             \E u \in 1..Len(disc.sitemapUrls) :
               disc.sitemapUrls[u] = Locs(doc.locs)[k]

\* The index a.xml named b.xml and c.xml, the request for b.xml failed,
\* and the five URLs of c.xml were returned.
C23_Witness ==
  /\ disc.pc = "decide"
  /\ Len(disc.fetched) = 4
  /\ disc.fetched[2] = [url |-> SitemapA,
                        doc |-> IndexDoc(<< Some(SitemapB), Some(SitemapC) >>)]
  /\ disc.fetched[3] = [url |-> SitemapB, doc |-> FailedDoc]
  /\ disc.fetched[4] = [url |-> SitemapC, doc |-> Urlset5]
  /\ disc.sitemapUrls = << PageAx, PageA, NotAUrl, OtherA, PagePdf >>

\* C24: when getUrlsFromRobotsTxt has returned after reading robots.txt,
\* the URL of every line that starts with "sitemap:", in whatever case and
\* with or without a space after the colon, was requested, and the value
\* of no other line was.
C24_EverySitemapLineResolved ==
  (disc.pc = "decide" /\ disc.robots = "ok") =>
    LET lines == disc.fetched[1].doc.locs IN
    \A k \in 1..Len(lines) :
      IF lines[k].key \in {"sitemap", "Sitemap", "SITEMAP"}
      THEN AskedAfter(1, lines[k].value) # {}
      ELSE AskedAfter(1, lines[k].value) = {}

\* The origin a run checks links against, by the rule: that of request.url,
\* unless the run is not in manifest mode and its first page reported a
\* final URL of another origin, which then is the origin.
RebasedOrigin ==
  LET seedOrigin == Origin(ParseURL(request.url)) IN
  IF ~ManifestMode(request) /\ attempts # << >> /\ IsSome(attempts[1].final)
     /\ Origin(ParseURL(Get(attempts[1].final))) # seedOrigin
  THEN Origin(ParseURL(Get(attempts[1].final)))
  ELSE seedOrigin

\* C25: throughout a run baseUrl is the origin of request.url, or, from the
\* first page of a run that is not in manifest mode on, the other origin
\* that page reported.
C25_RebasedOnFirstPageOnly ==
  (Seeded /\ earlier = 0) => baseUrl = RebasedOrigin

\* C26: once the base was rebased, a link the page exposes that is valid
\* under the new base has been queued by the time the link loop has
\* handled it: it is in the visited set.
C26_RedirectedSiteCrawled ==
  (pc = "expanding" /\ link # Empty
   /\ baseUrl # Origin(ParseURL(request.url))
   /\ isValidUrl(link, baseUrl, request.excludePatterns).value)
    => normalizeUrl(link) \in visitedUrls

\* A step in which a page was processed without failure by a run that is
\* not in manifest mode, at a depth below the limit.
ExpandablePageProcessed ==
  /\ pc = "draining"
  /\ ~ManifestMode(request)
  /\ Len(attempts') = Len(attempts) + 1
  /\ LET a == attempts'[Len(attempts')] IN
     /\ a.ok
     /\ ~a.failed
     /\ (IsSome(request.depth) => a.depth < Get(request.depth))

\* C27: a run whose includeUrls is absent or empty is seeded with
\* request.url at depth 0 and goes on to the link loop after every page it
\* processed below the depth limit.
C27_EmptyListIsNoManifest ==
  [][ /\ (pc = "seeding" /\ pc' = "draining" /\ ~ManifestMode(request))
         => queue' = << [url |-> request.url, depth |-> 0, dist |-> 0] >>
      /\ ExpandablePageProcessed => pc' = "expanding" ]_vars

\* The section a URL that parses is counted under: "/", the tokens of its
\* path up to the second "/", and "/"; "/" alone for the root path.
FirstSegmentSection(url) ==
  LET p == ParseURL(url).pathname
      rest == SubSeq(p, 2, Len(p))
      cut == IF \E i \in 1..Len(rest) : rest[i] = "/"
             THEN CHOOSE i \in 1..Len(rest) :
                    rest[i] = "/" /\ \A j \in 1..(i - 1) : rest[j] # "/"
             ELSE Len(rest) + 1
  IN IF rest = << >> THEN <<"/">>
     ELSE <<"/">> \o SubSeq(rest, 1, cut - 1) \o <<"/">>

\* The sum of a histogram.
RECURSIVE Total(_)
Total(histogram) ==
  IF DOMAIN histogram = {} THEN 0
  ELSE LET s == CHOOSE x \in DOMAIN histogram : TRUE
       IN histogram[s] + Total([x \in DOMAIN histogram \ {s} |-> histogram[x]])

\* C28: the structure discover() returns has totalUrls the length of the
\* URL list and urls the list itself, entries that do not parse and
\* repeated entries included; its sections count every entry that parses
\* under "/" + first path segment + "/", or "/", and nothing else.
C28_Structure ==
  disc.pc = "returned" =>
    LET urls == disc.urls
        parsed == {i \in 1..Len(urls) : ParseURL(urls[i]).ok}
        sections == disc.structure.sections
    IN /\ disc.structure.totalUrls = Len(urls)
       /\ disc.structure.urls = urls
       /\ Total(sections) = Cardinality(parsed)
       /\ \A i \in parsed : FirstSegmentSection(urls[i]) \in DOMAIN sections
       /\ \A s \in DOMAIN sections :
            sections[s] = Cardinality({i \in parsed : FirstSegmentSection(urls[i]) = s})

\* The structure of eight URLs, one of them no URL and one repeated, was
\* returned: seven are counted, the root under "/".
C28_Witness ==
  /\ disc.pc = "returned"
  /\ disc.urls = << Root, PageA, PageAB, PageAx, PageA, NotAUrl, OtherA, PagePdf >>
  /\ disc.structure.totalUrls = 8
  /\ Total(disc.structure.sections) = 7
  /\ disc.structure.sections[<<"/">>] = 1
  /\ disc.structure.sections[<<"/", "a", "/">>] >= 3

\* The distinct candidates of the page that start with "http".
Fetchable ==
  {u \in {extract.imageUrls[i] : i \in 1..Len(extract.imageUrls)}
         \cup {extract.pdfUrls[i] : i \in 1..Len(extract.pdfUrls)} :
     StartsWithHttp(u)}

\* The URLs of the fetches that succeeded, in the order they were made.
FetchedOk ==
  LET ok == SelectSeq(extract.fetches, LAMBDA f : f.ok)
  IN [i \in 1..Len(ok) |-> ok[i].url]

\* C29: resource extraction is best-effort per asset.  No URL is ever
\* fetched twice on one page and the resources collected are at every
\* moment exactly the successfully fetched assets, in order; no fetch is
\* made without includeResources; extractContent rejects only before the
\* first fetch, never because of one; and when it returns with
\* includeResources, every distinct candidate starting with "http" has
\* been fetched, whatever became of the fetches before it.
C29_BestEffortPerAsset ==
  /\ \A i, j \in 1..Len(extract.fetches) :
       extract.fetches[i].url = extract.fetches[j].url => i = j
  /\ [i \in 1..Len(extract.resources) |-> extract.resources[i].url] = FetchedOk
  /\ ~extract.includeResources => extract.fetches = << >>
  /\ extract.pc = "rejected" => extract.fetches = << >>
  /\ (extract.pc = "returned" /\ extract.includeResources) =>
       {extract.fetches[i].url : i \in 1..Len(extract.fetches)} = Fetchable

\* A page whose image is referenced twice has been extracted: the fetch
\* of the image failed, the fetch of the pdf after it succeeded, and the
\* PageResult carries the pdf alone.
C29_Witness ==
  /\ extract.pc = "returned"
  /\ extract.includeResources
  /\ Len(extract.imageUrls \o extract.pdfUrls) > Len(extract.allUrls)
  /\ Len(extract.fetches) = 2
  /\ ~extract.fetches[1].ok
  /\ extract.fetches[2].ok
  /\ Len(extract.resources) = 1
  /\ extract.resources[1].url = extract.fetches[2].url

\* The path a page key is made of: the pathname of the URL with one
\* trailing slash stripped and "/" rewritten to "/index".
KeyPath(url) ==
  LET p == ParseURL(url).pathname
      stripped == IF Len(p) > 1 /\ p[Len(p)] = "/" THEN SubSeq(p, 1, Len(p) - 1) ELSE p
  IN IF stripped = <<"/">> THEN <<"/", "index">> ELSE stripped

\* The puts of page records made so far (the first put of an iteration).
RecordPuts ==
  SelectSeq(save.puts, LAMBDA put : put.n = 1)

\* C30: in one ingestion run two page records are put under the same key
\* exactly when the paths of their URLs are equal after stripping one
\* trailing slash and rewriting "/" to "/index", whatever their query
\* string, fragment and host; so "/a", "/a/", "/a?a" and "/a" of another
\* host share one key, and so do "/" and "/index"; and of two records put
\* under one key the sink holds the later one.
C30_KeyCollisions ==
  \A i, j \in 1..Len(RecordPuts) :
    LET a == RecordPuts[i]
        b == RecordPuts[j]
        u == save.pages[a.page].url
        v == save.pages[b.page].url
    IN /\ (a.key = b.key) <=> (KeyPath(u) = KeyPath(v))
       /\ ({u, v} \subseteq {PageA, PageASlash, PageAQuery, OtherA}) => a.key = b.key
       /\ ({u, v} \subseteq {Root, RootIndex}) => a.key = b.key
       /\ (a.key = b.key /\ a.ok /\ b.ok /\ i < j) =>
            save.store[a.key].page >= b.page

\* The records of "http://h/" and of "http://h/index" were both put, in
\* this order, and the sink holds the second under "h/index.json".
C30_Witness ==
  /\ save.pc = "end"
  /\ Len(save.pages) = 2
  /\ save.pages[1].url = Root
  /\ save.pages[2].url = RootIndex
  /\ Len(save.puts) = 2
  /\ save.puts[1].ok
  /\ save.puts[2].ok
  /\ DOMAIN save.store = {<<"h", "/", "index", ".json">>}
  /\ save.store[<<"h", "/", "index", ".json">>].page = 2

\* The put of the page record of page k, made in the same iteration
\* before any of its resources.
RecordPutOf(k) ==
  LET at == CHOOSE p \in 1..Len(save.puts) :
              save.puts[p].page = k /\ save.puts[p].n = 1
  IN save.puts[at]

\* C31: every resource put to the sink is put under the key of its page's
\* record without ".json", followed by "_resources/", the md5 of the
\* resource's URL, "." and its extension; and the page record put for that
\* page lists exactly this key for the resource.
C31_ResourceKeys ==
  \A p \in 1..Len(save.puts) :
    LET put == save.puts[p] IN
    put.n > 1 =>
      LET r == Get(save.pages[put.page].resources)[put.n - 1]
          record == RecordPutOf(put.page)
          pageKey == record.key
          baseKey == SubSeq(pageKey, 1, Len(pageKey) - 1)
      IN /\ pageKey[Len(pageKey)] = ".json"
         /\ put.key = baseKey \o <<"_resources/", "md5(">> \o r.url
                        \o <<")", ".">> \o r.extension
         /\ IsSome(record.listed)
         /\ Get(record.listed)[put.n - 1].url = r.url
         /\ Get(record.listed)[put.n - 1].key = put.key

\* The page "http://h/a" was persisted with two resources: its pdf went
\* under "h/a_resources/md5(http://h/a.pdf).pdf" and the resource without
\* an extension under "h/a_resources/md5(http://h/ab).", both as the
\* record of the page lists them.
C31_Witness ==
  /\ save.pc = "end"
  /\ \E p \in 1..Len(save.puts) :
       /\ p + 2 <= Len(save.puts)
       /\ save.puts[p].n = 1
       /\ save.pages[save.puts[p].page].url = PageA
       /\ save.puts[p + 1].ok
       /\ save.puts[p + 2].ok
       /\ save.puts[p + 1].key =
            <<"h", "/", "a", "_resources/", "md5(", "http://", "h", "/", "a",
              ".pdf", ")", ".", "pdf">>
       /\ save.puts[p + 2].key =
            <<"h", "/", "a", "_resources/", "md5(", "http://", "h", "/", "a",
              "b", ")", ".">>
       /\ Get(save.puts[p].listed)[1].key = save.puts[p + 1].key
       /\ Get(save.puts[p].listed)[2].key = save.puts[p + 2].key

====
